---------------------------- MODULE Spec2Model ----------------------------
(***************************************************************************)
(* A model of the jostle crowd-collision core: the tile index              *)
(* (src/src/tile.rs), the producers of TileChanged messages                *)
(* (src/src/position.rs), the interpolation state machine                  *)
(* (src/src/lerp.rs) and the collision step (src/src/collision.rs).        *)
(***************************************************************************)
EXTENDS Integers, Sequences, FiniteSets, TLC

VARIABLES
    index,      \* TileIndex.index : Tile -> bucket (a sequence of agents)
    tile,       \* Position.tile of every agent (None or a tile)
    events,     \* the TileChanged messages written and not yet read
    transform,  \* Transform.translation.xy of every agent
    lastChanged,\* the change tick of every agent's Transform (last_changed())
    istate,     \* InterpolationState of every agent
    tick,       \* the world's change tick: the tick of the latest system run or write
    phase,      \* "in" between update_fixed and the collision system of a fixed tick
    lastWrite,  \* history: who wrote each Transform last, and in which state
    op,         \* history: the system that ran last
    prev,       \* history: each agent's state and last writer before that run
    state,      \* AgentState.position and .velocity of every agent
    velocity,   \* Velocity of every agent
    parent,     \* the layer relation of every agent (InLayer, ChildOf): a layer,
                \* or "world" when the agent has none
    layers,     \* the Layer entities that exist
    solid,      \* the TileMap: the set of solid tiles
    done        \* the agents the running collision system has processed

indexVars == <<index, tile, events>>

lerpVars == <<transform, lastChanged, istate, tick, phase, lastWrite, op, prev>>

collideVars == <<state, velocity, parent, layers, solid, done>>

vars == <<index, tile, events, transform, lastChanged, istate, tick, phase,
          lastWrite, op, prev, state, velocity, parent, layers, solid, done>>

-----------------------------------------------------------------------------
(* Bounds and the finite universe of entities.                             *)

\* At most MaxQueue messages wait between two runs of update_index.
MaxQueue == 1
\* Under arbitrary messages a bucket holds at most MaxBucket entries.
MaxBucket == 2

Agents == {"a1", "a2", "a3"}
\* The agents the host moves from tile to tile in the specifications of the
\* index; the others stay without a layer there.
Walkers == {"a1", "a2"}
Layers == {"l1", "l2"}

None == <<>>

\* The coordinates of the tiles agents stand on: wide enough for the cardinal
\* and diagonal steps and for a jump of two tiles.
XCoords == {0, 1, 2}
YCoords == {0, 1}

\* struct Tile(Entity, IVec2)
Tile(layer, x, y) == <<layer, x, y>>

TileLayer(t) == t[1]
TileX(t) == t[2]
TileY(t) == t[3]

\* The tiles an agent can stand on.
AgentTiles == {Tile(l, x, y) : l \in Layers, x \in XCoords, y \in YCoords}

\* Every tile that can become the key of a bucket.
AllTiles ==
    {Tile(l, x + dx, y + dy) : l \in Layers, x \in XCoords, y \in YCoords,
                               dx \in {-1, 0, 1}, dy \in {-1, 0, 1}}

\* The mutant of Neighborhood for C37: the tile and its four cardinal neighbours,
\* without the corners.
NeighborhoodCardinal(t) ==
    LET layer == TileLayer(t)
        x == TileX(t)
        y == TileY(t)
    IN << Tile(layer, x, y - 1),
          Tile(layer, x - 1, y), Tile(layer, x, y), Tile(layer, x + 1, y),
          Tile(layer, x, y + 1) >>

\* Tile::neighborhood, in the order of the array it returns.
Neighborhood(t) ==
    LET layer == TileLayer(t)
        x == TileX(t)
        y == TileY(t)
    IN << Tile(layer, x - 1, y - 1), Tile(layer, x, y - 1), Tile(layer, x + 1, y - 1),
          Tile(layer, x - 1, y),     Tile(layer, x, y),     Tile(layer, x + 1, y),
          Tile(layer, x - 1, y + 1), Tile(layer, x, y + 1), Tile(layer, x + 1, y + 1) >>

-----------------------------------------------------------------------------
(* TileIndex                                                               *)

\* TileIndex::get: the bucket of a tile, empty when the map has no such key.
Get(idx, t) == IF t \in DOMAIN idx THEN idx[t] ELSE <<>>

\* The mutant of Insert for C21: the agent is put at the front of the bucket.
InsertFront(idx, id, t) ==
    IF t \in DOMAIN idx
    THEN [idx EXCEPT ![t] = <<id>> \o @]
    ELSE idx @@ (t :> <<id>>)

\* TileIndex::insert: entry(tile).or_default().push(id)
Insert(idx, id, t) ==
    IF t \in DOMAIN idx
    THEN [idx EXCEPT ![t] = Append(@, id)]
    ELSE idx @@ (t :> <<id>>)

\* agents.iter().position(|&a| a == id): the first place of id, 0 when absent.
Position(agents, id) ==
    IF \E i \in 1..Len(agents) : agents[i] = id
    THEN CHOOSE i \in 1..Len(agents) :
            /\ agents[i] = id
            /\ \A j \in 1..(i - 1) : agents[j] # id
    ELSE 0

\* SmallVec::swap_remove: the last element takes the place of the removed one.
SwapRemove(agents, pos) ==
    [i \in 1..(Len(agents) - 1) |-> IF i = pos THEN agents[Len(agents)] ELSE agents[i]]

\* The mutant of Remove for I2: an emptied bucket stays in the map.
RemoveKeepEmpty(idx, id, t) ==
    IF t \notin DOMAIN idx
    THEN idx
    ELSE LET agents == idx[t]
             pos == Position(agents, id)
         IN [idx EXCEPT ![t] = IF pos = 0 THEN agents ELSE SwapRemove(agents, pos)]

\* The mutant of Remove for C38: when the agent is in the bucket, the last
\* element of the bucket is dropped in its place.
RemovePop(idx, id, t) ==
    IF t \notin DOMAIN idx
    THEN idx
    ELSE LET agents == idx[t]
             pos == Position(agents, id)
             after == IF pos = 0 THEN agents ELSE SubSeq(agents, 1, Len(agents) - 1)
         IN IF after = <<>>
            THEN [k \in (DOMAIN idx) \ {t} |-> idx[k]]
            ELSE [idx EXCEPT ![t] = after]

\* TileIndex::remove
Remove(idx, id, t) ==
    IF t \notin DOMAIN idx
    THEN idx
    ELSE LET agents == idx[t]
             pos == Position(agents, id)
             after == IF pos = 0 THEN agents ELSE SwapRemove(agents, pos)
         IN IF after = <<>>
            THEN [k \in (DOMAIN idx) \ {t} |-> idx[k]]
            ELSE [idx EXCEPT ![t] = after]

RECURSIVE InsertAll(_, _, _)
\* insert, applied to the tiles of a sequence in order
InsertAll(idx, id, ts) ==
    IF ts = <<>> THEN idx ELSE InsertAll(Insert(idx, id, Head(ts)), id, Tail(ts))

RECURSIVE RemoveAll(_, _, _)
\* remove, applied to the tiles of a sequence in order
RemoveAll(idx, id, ts) ==
    IF ts = <<>> THEN idx ELSE RemoveAll(Remove(idx, id, Head(ts)), id, Tail(ts))

\* TileIndex::insert_neighborhood
InsertNeighborhood(idx, id, t) == InsertAll(idx, id, Neighborhood(t))

\* TileIndex::remove_neighborhood
RemoveNeighborhood(idx, id, t) == RemoveAll(idx, id, Neighborhood(t))

\* The mutant of UpdateCardinal for C22: the leading edge is inserted one tile
\* short, on the column (or row) of the new tile.
UpdateCardinalShort(idx, id, layer, ox, oy, nx, ny, dx, dy) ==
    InsertAll(
        RemoveAll(idx, id,
            << Tile(layer, ox - dx + dy, oy - dy + dx),
               Tile(layer, ox - dx, oy - dy),
               Tile(layer, ox - dx - dy, oy - dy - dx) >>),
        id,
        << Tile(layer, nx + dy, ny + dx),
           Tile(layer, nx, ny),
           Tile(layer, nx - dy, ny - dx) >>)

\* The (1 | -1, 0) | (0, 1 | -1) arm of TileIndex::update.
UpdateCardinal(idx, id, layer, ox, oy, nx, ny, dx, dy) ==
    InsertAll(
        RemoveAll(idx, id,
            << Tile(layer, ox - dx + dy, oy - dy + dx),
               Tile(layer, ox - dx, oy - dy),
               Tile(layer, ox - dx - dy, oy - dy - dx) >>),
        id,
        << Tile(layer, nx + dx + dy, ny + dy + dx),
           Tile(layer, nx + dx, ny + dy),
           Tile(layer, nx + dx - dy, ny + dy - dx) >>)

\* The mutant of UpdateDiagonal for I1: a sign slip in the first tile removed
\* (oy + dy for oy - dy), so a tile of the trailing edge keeps the agent.
UpdateDiagonalSignSlip(idx, id, layer, ox, oy, nx, ny, dx, dy) ==
    InsertAll(
        RemoveAll(idx, id,
            << Tile(layer, ox + dx, oy + dy),
               Tile(layer, ox, oy - dy),
               Tile(layer, ox - dx, oy - dy),
               Tile(layer, ox - dx, oy),
               Tile(layer, ox - dx, oy + dy) >>),
        id,
        << Tile(layer, nx - dx, ny + dy),
           Tile(layer, nx, ny + dy),
           Tile(layer, nx + dx, ny + dy),
           Tile(layer, nx + dx, ny),
           Tile(layer, nx + dx, ny - dy) >>)

\* The (1 | -1, 1 | -1) arm of TileIndex::update.
UpdateDiagonal(idx, id, layer, ox, oy, nx, ny, dx, dy) ==
    InsertAll(
        RemoveAll(idx, id,
            << Tile(layer, ox + dx, oy - dy),
               Tile(layer, ox, oy - dy),
               Tile(layer, ox - dx, oy - dy),
               Tile(layer, ox - dx, oy),
               Tile(layer, ox - dx, oy + dy) >>),
        id,
        << Tile(layer, nx - dx, ny + dy),
           Tile(layer, nx, ny + dy),
           Tile(layer, nx + dx, ny + dy),
           Tile(layer, nx + dx, ny),
           Tile(layer, nx + dx, ny - dy) >>)

\* The mutant of Update for C13: the layers of old and new are not compared, so
\* a move to another layer is taken for a move within the old layer.
UpdateLayerNotCompared(idx, event) ==
    LET id == event.agent
        old == event.old
        new == event.new
    IN CASE old = None /\ new = None -> idx
         [] old # None /\ new = None -> RemoveNeighborhood(idx, id, old)
         [] old = None /\ new # None -> InsertNeighborhood(idx, id, new)
         [] OTHER ->
                LET layer == TileLayer(old)
                    ox == TileX(old)
                    oy == TileY(old)
                    nx == TileX(new)
                    ny == TileY(new)
                    dx == nx - ox
                    dy == ny - oy
                IN CASE dx = 0 /\ dy = 0 -> idx
                     [] (dx \in {1, -1} /\ dy = 0) \/ (dx = 0 /\ dy \in {1, -1}) ->
                            UpdateCardinal(idx, id, layer, ox, oy, nx, ny, dx, dy)
                     [] dx \in {1, -1} /\ dy \in {1, -1} ->
                            UpdateDiagonal(idx, id, layer, ox, oy, nx, ny, dx, dy)
                     [] OTHER ->
                            InsertNeighborhood(RemoveNeighborhood(idx, id, old), id, new)

\* TileIndex::update
Update(idx, event) ==
    LET id == event.agent
        old == event.old
        new == event.new
    IN CASE old = None /\ new = None -> idx
         [] old # None /\ new = None -> RemoveNeighborhood(idx, id, old)
         [] old = None /\ new # None -> InsertNeighborhood(idx, id, new)
         [] old # None /\ new # None /\ TileLayer(old) # TileLayer(new) ->
                InsertNeighborhood(RemoveNeighborhood(idx, id, old), id, new)
         [] OTHER ->
                LET layer == TileLayer(old)
                    ox == TileX(old)
                    oy == TileY(old)
                    nx == TileX(new)
                    ny == TileY(new)
                    dx == nx - ox
                    dy == ny - oy
                IN CASE dx = 0 /\ dy = 0 -> idx
                     [] (dx \in {1, -1} /\ dy = 0) \/ (dx = 0 /\ dy \in {1, -1}) ->
                            UpdateCardinal(idx, id, layer, ox, oy, nx, ny, dx, dy)
                     [] dx \in {1, -1} /\ dy \in {1, -1} ->
                            UpdateDiagonal(idx, id, layer, ox, oy, nx, ny, dx, dy)
                     [] OTHER ->
                            InsertNeighborhood(RemoveNeighborhood(idx, id, old), id, new)

RECURSIVE UpdateEachBackwards(_, _)
\* The mutant of UpdateEach for C24: the messages are applied from the last
\* written to the first.
UpdateEachBackwards(idx, evs) ==
    IF evs = <<>>
    THEN idx
    ELSE UpdateEachBackwards(Update(idx, evs[Len(evs)]), SubSeq(evs, 1, Len(evs) - 1))

RECURSIVE UpdateEach(_, _)
\* for event in tile_reader.read() { index.update(event) }
UpdateEach(idx, evs) ==
    IF evs = <<>> THEN idx ELSE UpdateEach(Update(idx, Head(evs)), Tail(evs))

\* struct TileChanged
TileChanged(agent, old, new) == [agent |-> agent, old |-> old, new |-> new]

-----------------------------------------------------------------------------
(* InterpolationState and the two systems of lerp.rs, for one agent.       *)
(* Positions are Vec2 values <<x, y>> in units of 1 / AlphaDen, the        *)
(* overstep fraction is k / AlphaDen, and the positions physics and the     *)
(* host write are multiples of AlphaDen, so that every lerp is exact.       *)

\* Time<Fixed>::overstep_fraction() takes the values k / AlphaDen, 0 <= k < AlphaDen.
AlphaDen == 2
\* Written positions have coordinates k * AlphaDen, 0 <= k <= MaxPos.
MaxPos == 1
\* The change tick counts system runs and host writes up to MaxTick.
MaxTick == 7

Alphas == 0..(AlphaDen - 1)

\* The agents the collision step moves and the host teleports; the others are
\* processed by every system but stand still.
Movers == {"a1"}

Vec2(x, y) == <<x, y>>

\* The positions the collision step and the host write.
Positions == {Vec2(i * AlphaDen, j * AlphaDen) : i \in 0..MaxPos, j \in 0..MaxPos}

\* InterpolationState::None
StateNone == [kind |-> "None"]

\* InterpolationState::Fixed { start }
StateFixed(start) == [kind |-> "Fixed", start |-> start]

\* InterpolationState::Interpolated { start, end, change_tick }
StateInterpolated(start, end, change_tick) ==
    [kind |-> "Interpolated", start |-> start, end |-> end, change_tick |-> change_tick]

\* Vec2::lerp: start + (end - start) * s, with s = k / AlphaDen
Lerp(start, end, k) ==
    Vec2(start[1] + ((end[1] - start[1]) * k) \div AlphaDen,
         start[2] + ((end[2] - start[2]) * k) \div AlphaDen)

\* One agent as the systems of lerp.rs see it.
AgentView(a) == [transform |-> transform[a], last_changed |-> lastChanged[a], state |-> istate[a]]

\* The mutant of UpdateFixedAgent for C9: an interpolation nobody overwrote is
\* not restored; the rendered position is taken as the physical one.
UpdateFixedAgentNoRestore(v, this_run) ==
    IF v.state.kind = "Fixed"
    THEN v
    ELSE [v EXCEPT !.state = StateFixed(v.transform)]

\* The mutant of UpdateFixedAgent for C10: the change tick is not compared, and
\* the end of a cancelled interpolation is written back over the host's value.
UpdateFixedAgentNoTick(v, this_run) ==
    CASE v.state.kind = "Fixed" -> v
      [] v.state.kind = "Interpolated" ->
            [transform |-> v.state.end, last_changed |-> this_run,
             state |-> StateFixed(v.state.end)]
      [] OTHER -> [v EXCEPT !.state = StateFixed(v.transform)]

\* The mutant of UpdateFixedAgent for C11: a state that is already Fixed is
\* refreshed too, so start follows the transform at every run.
UpdateFixedAgentRefresh(v, this_run) ==
    CASE v.state.kind = "Interpolated" /\ v.last_changed = v.state.change_tick ->
            [transform |-> v.state.end, last_changed |-> this_run,
             state |-> StateFixed(v.state.end)]
      [] OTHER -> [v EXCEPT !.state = StateFixed(v.transform)]

\* The mutant of UpdateFixedAgent for C33: for a state that is already Fixed
\* the transform is written again, with the value it holds.
UpdateFixedAgentTouching(v, this_run) ==
    CASE v.state.kind = "Fixed" -> [v EXCEPT !.last_changed = this_run]
      [] v.state.kind = "Interpolated" /\ v.last_changed = v.state.change_tick ->
            [transform |-> v.state.end, last_changed |-> this_run,
             state |-> StateFixed(v.state.end)]
      [] OTHER -> [v EXCEPT !.state = StateFixed(v.transform)]

\* The closure of update_fixed, run by a system whose tick is this_run.
UpdateFixedAgent(v, this_run) ==
    CASE v.state.kind = "Fixed" -> v
      [] v.state.kind = "Interpolated" /\ v.last_changed = v.state.change_tick ->
            [transform |-> v.state.end, last_changed |-> this_run,
             state |-> StateFixed(v.state.end)]
      [] OTHER -> [v EXCEPT !.state = StateFixed(v.transform)]

\* The mutant of UpdateRenderAgent for C7: the change tick is not compared, so
\* an interpolation goes on over a transform the host has written.
UpdateRenderAgentNoTick(v, k, this_run) ==
    LET moved == v.state.kind = "Fixed" /\ v.transform # v.state.start
        again == v.state.kind = "Interpolated"
        start == v.state.start
        end == IF moved THEN v.transform ELSE v.state.end
    IN IF moved \/ again
       THEN [transform |-> Lerp(start, end, k), last_changed |-> this_run,
             state |-> StateInterpolated(start, end, this_run)]
       ELSE [v EXCEPT !.state = StateNone]

\* The mutant of UpdateRenderAgent for C8: a repeated render interpolates from
\* the position rendered before instead of from the stored start.
UpdateRenderAgentCompound(v, k, this_run) ==
    LET moved == v.state.kind = "Fixed" /\ v.transform # v.state.start
        again == v.state.kind = "Interpolated" /\ v.last_changed = v.state.change_tick
        start == v.state.start
        end == IF moved THEN v.transform ELSE v.state.end
    IN IF moved \/ again
       THEN [transform |-> Lerp(IF again THEN v.transform ELSE start, end, k),
             last_changed |-> this_run,
             state |-> StateInterpolated(start, end, this_run)]
       ELSE [v EXCEPT !.state = StateNone]

\* The mutant of UpdateRenderAgent for C6: when an interpolation is cancelled,
\* the stored end is written back over whatever the transform holds.
UpdateRenderAgentSnapBack(v, k, this_run) ==
    LET moved == v.state.kind = "Fixed" /\ v.transform # v.state.start
        again == v.state.kind = "Interpolated" /\ v.last_changed = v.state.change_tick
        start == v.state.start
        end == IF moved THEN v.transform ELSE v.state.end
    IN IF moved \/ again
       THEN [transform |-> Lerp(start, end, k), last_changed |-> this_run,
             state |-> StateInterpolated(start, end, this_run)]
       ELSE IF v.state.kind = "Interpolated"
            THEN [transform |-> v.state.end, last_changed |-> this_run, state |-> StateNone]
            ELSE [v EXCEPT !.state = StateNone]

\* The mutant of UpdateRenderAgent for C12: the transform is not compared with
\* start, so every Fixed state starts an interpolation.
UpdateRenderAgentAlwaysLerp(v, k, this_run) ==
    LET moved == v.state.kind = "Fixed"
        again == v.state.kind = "Interpolated" /\ v.last_changed = v.state.change_tick
        start == v.state.start
        end == IF moved THEN v.transform ELSE v.state.end
    IN IF moved \/ again
       THEN [transform |-> Lerp(start, end, k), last_changed |-> this_run,
             state |-> StateInterpolated(start, end, this_run)]
       ELSE [v EXCEPT !.state = StateNone]

\* The mutant of UpdateRenderAgent for C34: a repeated render takes the
\* position rendered before as the new start of the interpolation.
UpdateRenderAgentRestart(v, k, this_run) ==
    LET moved == v.state.kind = "Fixed" /\ v.transform # v.state.start
        again == v.state.kind = "Interpolated" /\ v.last_changed = v.state.change_tick
        start == IF again THEN v.transform ELSE v.state.start
        end == IF moved THEN v.transform ELSE v.state.end
    IN IF moved \/ again
       THEN [transform |-> Lerp(start, end, k), last_changed |-> this_run,
             state |-> StateInterpolated(start, end, this_run)]
       ELSE [v EXCEPT !.state = StateNone]

\* The mutant of UpdateRenderAgent for C35: change_tick is the tick the
\* transform had before the render wrote it.
UpdateRenderAgentStaleTick(v, k, this_run) ==
    LET moved == v.state.kind = "Fixed" /\ v.transform # v.state.start
        again == v.state.kind = "Interpolated" /\ v.last_changed = v.state.change_tick
        start == v.state.start
        end == IF moved THEN v.transform ELSE v.state.end
    IN IF moved \/ again
       THEN [transform |-> Lerp(start, end, k), last_changed |-> this_run,
             state |-> StateInterpolated(start, end, v.last_changed)]
       ELSE [v EXCEPT !.state = StateNone]

\* The mutant of UpdateRenderAgent for C39: a Fixed state whose transform did
\* not move is left Fixed by the render.
UpdateRenderAgentKeepFixed(v, k, this_run) ==
    LET moved == v.state.kind = "Fixed" /\ v.transform # v.state.start
        again == v.state.kind = "Interpolated" /\ v.last_changed = v.state.change_tick
        start == v.state.start
        end == IF moved THEN v.transform ELSE v.state.end
    IN IF moved \/ again
       THEN [transform |-> Lerp(start, end, k), last_changed |-> this_run,
             state |-> StateInterpolated(start, end, this_run)]
       ELSE IF v.state.kind = "Fixed" THEN v ELSE [v EXCEPT !.state = StateNone]

\* The closure of update_render, run with overstep fraction k / AlphaDen by a
\* system whose tick is this_run.
UpdateRenderAgent(v, k, this_run) ==
    LET moved == v.state.kind = "Fixed" /\ v.transform # v.state.start
        again == v.state.kind = "Interpolated" /\ v.last_changed = v.state.change_tick
        start == v.state.start
        end == IF moved THEN v.transform ELSE v.state.end
    IN IF moved \/ again
       THEN [transform |-> Lerp(start, end, k), last_changed |-> this_run,
             state |-> StateInterpolated(start, end, this_run)]
       ELSE [v EXCEPT !.state = StateNone]

-----------------------------------------------------------------------------
(* The systems and hooks that write and read TileChanged messages.         *)

\* update_relative, for one agent whose layer exists and whose position
\* falls in the tile (x, y) of that layer: a message is written when the tile
\* differs from the cached one, and the cache is set.
UpdateRelative(a, layer, x, y) ==
    LET new_tile == Tile(layer, x, y)
    IN /\ IF tile[a] # new_tile
          THEN /\ Len(events) < MaxQueue
               /\ events' = Append(events, TileChanged(a, tile[a], new_tile))
          ELSE events' = events
       /\ tile' = [tile EXCEPT ![a] = new_tile]
       /\ UNCHANGED <<index, lerpVars, collideVars>>

\* Position::on_replace: the agent's Position is replaced or removed (by a
\* despawn); the component that follows it, if any, is Position::default().
OnReplace(a) ==
    /\ IF tile[a] # None
       THEN /\ Len(events) < MaxQueue
            /\ events' = Append(events, TileChanged(a, tile[a], None))
       ELSE events' = events
    /\ tile' = [tile EXCEPT ![a] = None]
    /\ UNCHANGED <<index, lerpVars, collideVars>>

\* update_index: every message written since the last run is applied, in the
\* order of writing.
UpdateIndex ==
    /\ index' = UpdateEach(index, events)
    /\ events' = <<>>
    /\ UNCHANGED <<tile, lerpVars, collideVars>>

InitIndex ==
    /\ index = <<>>
    /\ tile = [a \in Agents |-> None]
    /\ events = <<>>

\* Agents as spawned: Transform at a position the host chose (the origin for
\* the agents that stand still), InterpolationState::default(), no system run
\* yet.
InitLerp ==
    /\ transform \in [Agents -> Positions]
    /\ \A a \in Agents \ Movers : transform[a] = Vec2(0, 0)
    /\ lastChanged = [a \in Agents |-> 0]
    /\ istate = [a \in Agents |-> StateNone]
    /\ tick = 0
    /\ phase = "out"
    /\ lastWrite = [a \in Agents |-> [by |-> "host", in |-> "None"]]
    /\ op = [name |-> "spawn", k |-> 0]
    /\ prev = [a \in Agents |-> [view |-> AgentView(a), by |-> "host", in |-> "None"]]

\* The specifications of the tile index leave the agents where they were
\* spawned.
LerpAtRest ==
    /\ InitLerp
    /\ transform = [a \in Agents |-> Vec2(0, 0)]

\* The specifications of the tile index and of the interpolation run no
\* collision step: default components, no solid tile.
CollideAtRest ==
    /\ state = [a \in Agents |-> [position |-> Vec2(0, 0), velocity |-> Vec2(0, 0)]]
    /\ velocity = [a \in Agents |-> Vec2(0, 0)]
    /\ parent = [a \in Agents |-> "world"]
    /\ layers = Layers
    /\ solid = {}
    /\ done = {}

Init == InitIndex /\ LerpAtRest /\ CollideAtRest

Next ==
    \/ \E a \in Walkers, layer \in Layers, x \in XCoords, y \in YCoords :
            UpdateRelative(a, layer, x, y)
    \/ \E a \in Walkers : OnReplace(a)
    \/ UpdateIndex

Spec == Init /\ [][Next]_vars

-----------------------------------------------------------------------------
(* The interpolation state machine: the systems of lerp.rs, the writes of   *)
(* the collision step and the writes of the host, for every agent.          *)

\* Who wrote the Transform last: a system of the core stamps this_run.
WriterAfter(a, new, this_run) ==
    IF new.last_changed = this_run
    THEN [by |-> "core", in |-> istate[a].kind]
    ELSE lastWrite[a]

\* What a system run leaves behind, given every agent's new view.
SystemRan(new, this_run, name, k) ==
    /\ transform' = [a \in Agents |-> new[a].transform]
    /\ lastChanged' = [a \in Agents |-> new[a].last_changed]
    /\ istate' = [a \in Agents |-> new[a].state]
    /\ tick' = this_run
    /\ lastWrite' = [a \in Agents |-> WriterAfter(a, new[a], this_run)]
    /\ op' = [name |-> name, k |-> k]
    /\ prev' = [a \in Agents |-> [view |-> AgentView(a), by |-> lastWrite[a].by,
                                   in |-> lastWrite[a].in]]

\* update_fixed (FixedFirst): the first system of a fixed tick.
UpdateFixed ==
    /\ phase = "out"
    /\ tick < MaxTick
    /\ SystemRan([a \in Agents |-> UpdateFixedAgent(AgentView(a), tick + 1)],
                 tick + 1, "fixed", 0)
    /\ phase' = "in"
    /\ UNCHANGED <<indexVars, collideVars>>

\* collision::process, as far as the transforms go: it writes the new position
\* of every agent it moves (w[a] a position) and leaves the others (w[a] = None:
\* zero velocity, no tile, no layer).
ProcessTransforms(w) ==
    /\ phase = "in"
    /\ tick < MaxTick
    /\ SystemRan([a \in Agents |->
                    IF w[a] = None
                    THEN AgentView(a)
                    ELSE [AgentView(a) EXCEPT !.transform = w[a], !.last_changed = tick + 1]],
                 tick + 1, "process", 0)
    /\ phase' = "out"
    /\ UNCHANGED <<indexVars, collideVars>>

\* update_render (RunFixedMainLoop, after the fixed main loop), with overstep
\* fraction k / AlphaDen.
UpdateRender(k) ==
    /\ phase = "out"
    /\ tick < MaxTick
    /\ SystemRan([a \in Agents |-> UpdateRenderAgent(AgentView(a), k, tick + 1)],
                 tick + 1, "render", k)
    /\ UNCHANGED <<phase, indexVars, collideVars>>

\* The host writes an agent's Transform (a teleport, an editor drag): the write
\* stamps a tick of its own.
HostWrite(a, p) ==
    /\ tick < MaxTick
    /\ transform' = [transform EXCEPT ![a] = p]
    /\ lastChanged' = [lastChanged EXCEPT ![a] = tick + 1]
    /\ tick' = tick + 1
    /\ lastWrite' = [lastWrite EXCEPT ![a] = [by |-> "host", in |-> istate[a].kind]]
    /\ op' = [name |-> "host", k |-> 0]
    /\ UNCHANGED <<istate, phase, prev, indexVars, collideVars>>

NextLerp ==
    \/ UpdateFixed
    \/ \E w \in [Movers -> Positions \cup {None}] :
            ProcessTransforms([a \in Agents |-> IF a \in Movers THEN w[a] ELSE None])
    \/ \E k \in Alphas : UpdateRender(k)
    \/ \E a \in Movers, p \in Positions : HostWrite(a, p)

\* The index stays empty and no collision step runs while the interpolation
\* is explored.
InitInterpolation == InitIndex /\ InitLerp /\ CollideAtRest

SpecLerp == InitInterpolation /\ [][NextLerp]_vars

-----------------------------------------------------------------------------
(* The index under arbitrary messages, as the unit tests of tile.rs drive   *)
(* it: TileIndex::update is called with any TileChanged value, also one     *)
(* whose old tile is not the tile the agent was inserted at.                *)

\* index.update(&TileChanged { agent, old, new })
IndexUpdate(a, old, new) ==
    /\ index' = Update(index, TileChanged(a, old, new))
    /\ \A t \in DOMAIN index' : Len(index'[t]) <= MaxBucket
    /\ UNCHANGED <<tile, events, lerpVars, collideVars>>

\* The tiles the arbitrary messages name: two adjacent tiles of one layer and a
\* tile of another layer.
AnyTiles == {Tile("l1", 0, 0), Tile("l1", 1, 0), Tile("l2", 0, 0)}

NextAny ==
    \E a \in Walkers, old \in AnyTiles \cup {None}, new \in AnyTiles \cup {None} :
        IndexUpdate(a, old, new)

SpecAny == Init /\ [][NextAny]_vars

-----------------------------------------------------------------------------
(* The collision step (src/src/collision.rs). An f32 is modelled by the     *)
(* exact rational <<n, d>>, d > 0, in lowest terms; <<-1, 0>>, <<1, 0>> and   *)
(* <<0, 0>> stand for -inf, +inf and NaN, which a division by zero yields.   *)
(* A Vec2 of the collision step is a pair of such rationals. Lengths are in  *)
(* tenths of a world unit.                                                   *)

Abs(n) == IF n < 0 THEN -n ELSE n

RECURSIVE GCD(_, _)
GCD(m, n) == IF n = 0 THEN m ELSE GCD(n, m % n)

\* The rational n / d, d # 0, in lowest terms.
Rat(n, d) ==
    LET g == GCD(Abs(n), Abs(d))
        s == IF d < 0 THEN -1 ELSE 1
    IN <<(s * n) \div g, (s * d) \div g>>

Zero == <<0, 1>>
NegInf == <<-1, 0>>
PosInf == <<1, 0>>
NaN == <<0, 0>>

RAdd(p, q) == Rat(p[1] * q[2] + q[1] * p[2], p[2] * q[2])
RNeg(p) == <<-p[1], p[2]>>
RSub(p, q) == RAdd(p, RNeg(q))
RMul(p, q) == Rat(p[1] * q[1], p[2] * q[2])
RDiv(p, q) == Rat(p[1] * q[2], p[2] * q[1])

\* p < q, for finite p and q
RLess(p, q) == p[1] * q[2] < q[1] * p[2]

\* p < q as IEEE 754 orders the floats: false when either is NaN
FLess(p, q) ==
    CASE p = NaN \/ q = NaN -> FALSE
      [] p = NegInf -> q # NegInf
      [] p = PosInf -> FALSE
      [] q = NegInf -> FALSE
      [] q = PosInf -> TRUE
      [] OTHER -> RLess(p, q)

\* f32::max(t, 0.)
FMax0(t) == IF t = NaN \/ FLess(t, Zero) THEN Zero ELSE t

\* The square root of a natural number, rounded down, found by bisection
\* between lo (lo * lo <= n) and hi (n < hi * hi).
RECURSIVE SqrtBetween(_, _, _)
SqrtBetween(n, lo, hi) ==
    IF hi - lo <= 1
    THEN lo
    ELSE LET mid == (lo + hi) \div 2
         IN IF mid * mid <= n THEN SqrtBetween(n, mid, hi) ELSE SqrtBetween(n, lo, mid)

\* f32::sqrt of a rational >= 0: exact whenever the root is rational, as it is
\* for every contact of agents that move along one line.
Sqrt(p) == <<SqrtBetween(p[1], 0, 46341), SqrtBetween(p[2], 0, 46341)>>

\* Vec2 with rational coordinates
RVec(x, y) == Vec2(Rat(x, 1), Rat(y, 1))
VAdd(u, v) == Vec2(RAdd(u[1], v[1]), RAdd(u[2], v[2]))
VSub(u, v) == Vec2(RSub(u[1], v[1]), RSub(u[2], v[2]))
VScale(u, s) == Vec2(RMul(u[1], s), RMul(u[2], s))
Dot(u, v) == RAdd(RMul(u[1], v[1]), RMul(u[2], v[2]))
LengthSquared(u) == Dot(u, u)
VecZero == RVec(0, 0)

\* layer.tile_size(), the same for every layer
TileSize == 10
\* time.delta_secs()
DeltaSecs == 1
\* agent.radius()
Radius(a) == 2

\* The mutant of TileFloor for C36: the quotient is rounded towards zero.
TileFloorTruncated(layer, position, tile_size) ==
    LET trunc(n, d) == IF n < 0 THEN -((-n) \div d) ELSE n \div d
    IN Tile(layer, trunc(position[1][1], position[1][2] * tile_size),
                   trunc(position[2][1], position[2][2] * tile_size))

\* Tile::floor(layer, position, tile_size)
TileFloor(layer, position, tile_size) ==
    Tile(layer, position[1][1] \div (position[1][2] * tile_size),
                position[2][1] \div (position[2][2] * tile_size))

\* The mutant of SolveAgentCollision for C3: the combined radius is not
\* squared.
SolveAgentCollisionRadiusNotSquared(delta_position, delta_velocity, combined_radius) ==
    LET a == LengthSquared(delta_velocity)
        b == RMul(Rat(2, 1), Dot(delta_position, delta_velocity))
        c == RSub(LengthSquared(delta_position), Rat(combined_radius, 1))
        discr == RSub(RMul(b, b), RMul(Rat(4, 1), RMul(a, c)))
        t == RDiv(RSub(RNeg(b), Sqrt(discr)), RMul(Rat(2, 1), a))
    IN CASE a = Zero -> None
         [] RLess(discr, Zero) -> None
         [] RLess(Zero, t) -> t
         [] RLess(b, Zero) -> t
         [] OTHER -> None

\* The mutant of SolveAgentCollision for C27: the later root of the quadratic
\* is taken.
SolveAgentCollisionLaterRoot(delta_position, delta_velocity, combined_radius) ==
    LET a == LengthSquared(delta_velocity)
        b == RMul(Rat(2, 1), Dot(delta_position, delta_velocity))
        c == RSub(LengthSquared(delta_position), Rat(combined_radius * combined_radius, 1))
        discr == RSub(RMul(b, b), RMul(Rat(4, 1), RMul(a, c)))
        t == RDiv(RAdd(RNeg(b), Sqrt(discr)), RMul(Rat(2, 1), a))
    IN CASE a = Zero -> None
         [] RLess(discr, Zero) -> None
         [] RLess(Zero, t) -> t
         [] RLess(b, Zero) -> t
         [] OTHER -> None

\* solve_agent_collision: the time of the first contact of two discs, or None
SolveAgentCollision(delta_position, delta_velocity, combined_radius) ==
    LET a == LengthSquared(delta_velocity)
        b == RMul(Rat(2, 1), Dot(delta_position, delta_velocity))
        c == RSub(LengthSquared(delta_position), Rat(combined_radius * combined_radius, 1))
        discr == RSub(RMul(b, b), RMul(Rat(4, 1), RMul(a, c)))
        t == RDiv(RSub(RNeg(b), Sqrt(discr)), RMul(Rat(2, 1), a))
    IN CASE a = Zero -> None
         [] RLess(discr, Zero) -> None
         [] RLess(Zero, t) -> t
         [] RLess(b, Zero) -> t
         [] OTHER -> None

\* The mutant of SolveWallCollision for C40: the radius of the agent is left
\* out, so that the contact is where the centre of the agent meets the line.
SolveWallCollisionCentre(agent_position, agent_velocity, agent_radius, wall_position, wall_normal, tile_size) ==
    LET axis == IF wall_normal \in {"North", "South"} THEN 2 ELSE 1
        negated == wall_normal \in {"South", "West"}
        projected_position ==
            IF negated THEN RNeg(agent_position[axis]) ELSE agent_position[axis]
        projected_velocity ==
            IF negated THEN RNeg(agent_velocity[axis]) ELSE agent_velocity[axis]
        dividend == RSub(Rat(wall_position * tile_size, 1), projected_position)
    IN CASE RLess(projected_velocity, Zero) -> None
         [] projected_velocity = Zero ->
                CASE dividend = Zero -> NaN
                  [] RLess(Zero, dividend) -> IF negated THEN NegInf ELSE PosInf
                  [] OTHER -> IF negated THEN PosInf ELSE NegInf
         [] OTHER -> RDiv(dividend, projected_velocity)

\* solve_wall_collision. A zero component of a velocity is +0.0, so that the
\* projection on South or West is -0.0, and the division by it has the sign of
\* the dividend reversed.
SolveWallCollision(agent_position, agent_velocity, agent_radius, wall_position, wall_normal, tile_size) ==
    LET axis == IF wall_normal \in {"North", "South"} THEN 2 ELSE 1
        negated == wall_normal \in {"South", "West"}
        projected_position ==
            IF negated THEN RNeg(agent_position[axis]) ELSE agent_position[axis]
        projected_velocity ==
            IF negated THEN RNeg(agent_velocity[axis]) ELSE agent_velocity[axis]
        delta_position == RSub(Rat(wall_position * tile_size, 1), projected_position)
        dividend == RSub(delta_position, Rat(agent_radius, 1))
    IN CASE RLess(projected_velocity, Zero) -> None
         [] projected_velocity = Zero ->
                CASE dividend = Zero -> NaN
                  [] RLess(Zero, dividend) -> IF negated THEN NegInf ELSE PosInf
                  [] OTHER -> IF negated THEN PosInf ELSE NegInf
         [] OTHER -> RDiv(dividend, projected_velocity)

\* tile.boundaries(&*map): the wall lines of the solid cardinal neighbours of
\* a tile, each with its position along the normal, in tiles.
Boundaries(t) ==
    LET layer == TileLayer(t)
        x == TileX(t)
        y == TileY(t)
        wall(neighbour, position, normal) ==
            IF neighbour \in solid THEN <<[position |-> position, normal |-> normal]>>
            ELSE <<>>
    IN wall(Tile(layer, x, y + 1), y + 1, "North")
       \o wall(Tile(layer, x, y - 1), -y, "South")
       \o wall(Tile(layer, x + 1, y), x + 1, "East")
       \o wall(Tile(layer, x - 1, y), -x, "West")

\* The mutant of Nearer for C28: the time of the candidate is not compared
\* with the step.
NearerAnyTime(nearest, collision, t) ==
    IF t # None /\ (nearest = None \/ FLess(t, nearest.t))
    THEN [collision |-> collision, t |-> t]
    ELSE nearest

\* The update of nearest_collision by a candidate contact at time t (lines
\* 66-76 and 89-97): t replaces the nearest so far when it is below the step
\* and strictly below the nearest.
Nearer(nearest, collision, t) ==
    IF t # None /\ FLess(t, Rat(DeltaSecs, 1)) /\ (nearest = None \/ FLess(t, nearest.t))
    THEN [collision |-> collision, t |-> t]
    ELSE nearest

\* The loop over the bucket as the mutant of NearestCollision for C19 runs it:
\* the target is read from its Transform and its Velocity, which its own
\* worker writes in the same step.
RECURSIVE NearestAgentLive(_, _, _, _)
NearestAgentLive(id, targets, i, nearest) ==
    IF i > Len(targets)
    THEN nearest
    ELSE LET target == targets[i]
             t == IF target = id
                  THEN None
                  ELSE SolveAgentCollision(
                           VSub(transform[target], state[id].position),
                           VSub(velocity[target], state[id].velocity),
                           Radius(id) + Radius(target))
         IN NearestAgentLive(id, targets, i + 1,
                             Nearer(nearest, [kind |-> "Agent", target |-> target], t))

\* The loop over the bucket of the agent's tile, from entry i on.
RECURSIVE NearestAgent(_, _, _, _)
NearestAgent(id, targets, i, nearest) ==
    IF i > Len(targets)
    THEN nearest
    ELSE LET target == targets[i]
             t == IF target = id
                  THEN None
                  ELSE SolveAgentCollision(
                           VSub(state[target].position, state[id].position),
                           VSub(state[target].velocity, state[id].velocity),
                           Radius(id) + Radius(target))
         IN NearestAgent(id, targets, i + 1,
                         Nearer(nearest, [kind |-> "Agent", target |-> target], t))

\* The loop over the walls of the agent's tile, from wall i on.
RECURSIVE NearestWall(_, _, _, _)
NearestWall(id, walls, i, nearest) ==
    IF i > Len(walls)
    THEN nearest
    ELSE LET t == SolveWallCollision(state[id].position, state[id].velocity, Radius(id),
                                     walls[i].position, walls[i].normal, TileSize)
         IN NearestWall(id, walls, i + 1,
                        Nearer(nearest, [kind |-> "Wall", normal |-> walls[i].normal], t))

\* The mutant of NearestCollision for C19, with the loop that reads the
\* targets' own components.
NearestCollisionLive(id) ==
    NearestWall(id, Boundaries(tile[id]), 1,
                NearestAgentLive(id, Get(index, tile[id]), 1, None))

\* nearest_collision when both loops are done
NearestCollision(id) ==
    NearestWall(id, Boundaries(tile[id]), 1,
                NearestAgent(id, Get(index, tile[id]), 1, None))

\* Collision::contact: the position of the agent at time t, and the direction
\* of the contact normal. The unit normal is direction / |direction|
\* (normalize_or_zero); the zero direction gives the zero normal.
Contact(collision, agent, t) ==
    LET agent_contact == VAdd(agent.position, VScale(agent.velocity, t))
    IN IF collision.kind = "Agent"
       THEN LET target == state[collision.target]
                target_contact == VAdd(target.position, VScale(target.velocity, t))
            IN [position |-> agent_contact, direction |-> VSub(agent_contact, target_contact)]
       ELSE [position |-> agent_contact,
             direction |-> CASE collision.normal = "North" -> RVec(0, 1)
                             [] collision.normal = "South" -> RVec(0, -1)
                             [] collision.normal = "East" -> RVec(1, 0)
                             [] collision.normal = "West" -> RVec(-1, 0)]

\* projected_velocity * normal for the unit normal along direction:
\* (v . direction / |direction|^2) * direction, the zero vector for the zero
\* direction.
ProjectedOnNormal(v, direction) ==
    IF direction = VecZero
    THEN VecZero
    ELSE VScale(direction, RDiv(Dot(v, direction), LengthSquared(direction)))

\* The mutant of Resolved for C30: an agent that moves against the normal is
\* stopped, its velocity along the contact included.
ResolvedStopped(live, frozen, direction) ==
    IF RLess(Dot(frozen, direction), Zero)
    THEN VecZero
    ELSE live

\* The velocity the resolution leaves (lines 103-106): the component of the
\* frozen velocity along the normal is subtracted from Velocity when it points
\* against the normal.
Resolved(live, frozen, direction) ==
    IF RLess(Dot(frozen, direction), Zero)
    THEN VSub(live, ProjectedOnNormal(frozen, direction))
    ELSE live

\* The mutant of ProcessAgent for C5: the shortcut for a zero velocity is
\* missing, and the contact is resolved on the velocity relative to the target.
ProcessAgentPushed(id) ==
    LET position == state[id]
        nearest == NearestCollision(id)
    IN CASE tile[id] = None \/ parent[id] \notin layers ->
                [transform |-> transform[id], velocity |-> velocity[id], wrote |-> FALSE]
         [] nearest # None ->
                LET contact == Contact(nearest.collision, position, FMax0(nearest.t))
                    closing == IF nearest.collision.kind = "Agent"
                               THEN VSub(position.velocity,
                                         state[nearest.collision.target].velocity)
                               ELSE position.velocity
                IN [transform |-> contact.position,
                    velocity |-> Resolved(velocity[id], closing, contact.direction),
                    wrote |-> TRUE]
         [] OTHER ->
                [transform |-> VAdd(position.position,
                                    VScale(position.velocity, Rat(DeltaSecs, 1))),
                 velocity |-> velocity[id], wrote |-> TRUE]

\* The mutant of ProcessAgent for C18: the lookup of the parent among the
\* layers is not checked, so an agent with a cached tile and no layer moves.
ProcessAgentNoLayerCheck(id) ==
    LET position == state[id]
        nearest == NearestCollision(id)
    IN CASE velocity[id] = VecZero \/ tile[id] = None ->
                [transform |-> transform[id], velocity |-> velocity[id], wrote |-> FALSE]
         [] nearest # None ->
                LET contact == Contact(nearest.collision, position, FMax0(nearest.t))
                IN [transform |-> contact.position,
                    velocity |-> Resolved(velocity[id], position.velocity, contact.direction),
                    wrote |-> TRUE]
         [] OTHER ->
                [transform |-> VAdd(position.position,
                                    VScale(position.velocity, Rat(DeltaSecs, 1))),
                 velocity |-> velocity[id], wrote |-> TRUE]

\* The mutant of ProcessAgentWith for C29: the agent is put where it was at
\* the time of the contact, also when that time is before the step.
ProcessAgentWithRawTime(id, own_transform, own_velocity) ==
    LET position == state[id]
        nearest == NearestCollision(id)
    IN CASE own_velocity = VecZero \/ tile[id] = None \/ parent[id] \notin layers ->
                [transform |-> own_transform, velocity |-> own_velocity, wrote |-> FALSE]
         [] nearest # None ->
                LET contact == Contact(nearest.collision, position, nearest.t)
                IN [transform |-> contact.position,
                    velocity |-> Resolved(own_velocity, position.velocity, contact.direction),
                    wrote |-> TRUE]
         [] OTHER ->
                [transform |-> VAdd(position.position,
                                    VScale(position.velocity, Rat(DeltaSecs, 1))),
                 velocity |-> own_velocity, wrote |-> TRUE]

\* The closure of process for one agent, given the agent's own Transform and
\* Velocity (the two components it borrows mutably): the Transform and the
\* Velocity it leaves, and whether it wrote the Transform.
ProcessAgentWith(id, own_transform, own_velocity) ==
    LET position == state[id]
        nearest == NearestCollision(id)
    IN CASE own_velocity = VecZero \/ tile[id] = None \/ parent[id] \notin layers ->
                [transform |-> own_transform, velocity |-> own_velocity, wrote |-> FALSE]
         [] nearest # None ->
                LET contact == Contact(nearest.collision, position, FMax0(nearest.t))
                IN [transform |-> contact.position,
                    velocity |-> Resolved(own_velocity, position.velocity, contact.direction),
                    wrote |-> TRUE]
         [] OTHER ->
                [transform |-> VAdd(position.position,
                                    VScale(position.velocity, Rat(DeltaSecs, 1))),
                 velocity |-> own_velocity, wrote |-> TRUE]

\* The closure on the components the agent has when its worker runs.
ProcessAgent(id) == ProcessAgentWith(id, transform[id], velocity[id])

\* The mutant of Process for C20: the worker brings the frozen position of its
\* agent up to date with the transform it has written.
ProcessRefreshing(id) ==
    /\ id \notin done
    /\ LET new == ProcessAgent(id)
       IN /\ transform' = [transform EXCEPT ![id] = new.transform]
          /\ velocity' = [velocity EXCEPT ![id] = new.velocity]
          /\ lastChanged' = [lastChanged EXCEPT ![id] = IF new.wrote THEN tick + 1 ELSE @]
          /\ state' = [state EXCEPT ![id].position = new.transform]
    /\ done' = done \cup {id}
    /\ UNCHANGED <<indexVars, parent, layers, solid, istate, tick, phase, lastWrite, op, prev>>

\* One worker of par_iter_mut runs the closure for one agent.
Process(id) ==
    /\ id \notin done
    /\ LET new == ProcessAgent(id)
       IN /\ transform' = [transform EXCEPT ![id] = new.transform]
          /\ velocity' = [velocity EXCEPT ![id] = new.velocity]
          /\ lastChanged' = [lastChanged EXCEPT ![id] = IF new.wrote THEN tick + 1 ELSE @]
    /\ done' = done \cup {id}
    /\ UNCHANGED <<indexVars, state, parent, layers, solid, istate, tick, phase, lastWrite, op, prev>>

\* Where the host puts the agents of a step, along one line: x, in tenths.
StartX == [a1 |-> {0, 5}, a2 |-> {10}, a3 |-> {15, 20}]
\* The line: the middle of the tile row 0.
StartY == 5
\* The velocities the host sets, along the line, in tenths per second.
StartVelocities == {-5, 0, 4, 5, 20}
\* The tile maps of a step: no solid tile, a solid tile east of the tile x = 2,
\* a solid tile south of the tile x = 1.
TileMaps == {{}, {Tile("l1", 3, 0)}, {Tile("l1", 1, -1)}}
\* The agents that may be outside every layer.
Loners == {"a3"}

\* The order in which the workers of update_relative take the writer's mutex.
EntryOrder == <<"a1", "a2", "a3">>

\* The messages update_relative writes for the agents that enter their tiles,
\* from the i-th agent of the order on.
RECURSIVE Entered(_, _)
Entered(tiles, i) ==
    IF i > Len(EntryOrder)
    THEN <<>>
    ELSE LET a == EntryOrder[i]
         IN (IF tiles[a] = None THEN <<>> ELSE <<TileChanged(a, None, tiles[a])>>)
            \o Entered(tiles, i + 1)

\* The state in which process starts in a fixed tick: the host has placed the
\* agents of layer "l1" and set their velocities, update_relative has frozen
\* position, velocity and tile, and update_index has applied the messages.
\* The agents of lone never had a layer; those of cut lost theirs after an
\* earlier tick and keep the tile, position and velocity cached then.
InitCollide ==
    \E x \in [Agents -> UNION {StartX[a] : a \in Agents}], v \in [Agents -> StartVelocities],
       lone \in SUBSET Loners, cut \in SUBSET Loners, map \in TileMaps :
        /\ \A a \in Agents : x[a] \in StartX[a]
        /\ \A a \in lone : x[a] = 15
        /\ lone \cap cut = {}
        /\ parent = [a \in Agents |-> IF a \in lone \cup cut THEN "world" ELSE "l1"]
        /\ transform = [a \in Agents |-> RVec(x[a], StartY)]
        /\ velocity = [a \in Agents |-> RVec(v[a], 0)]
        /\ state = [a \in Agents |-> [position |-> transform[a], velocity |-> velocity[a]]]
        /\ tile = [a \in Agents |->
                     IF a \in lone THEN None ELSE TileFloor("l1", transform[a], TileSize)]
        /\ events = <<>>
        /\ index = UpdateEach(<<>>, Entered(tile, 1))
        /\ layers = Layers
        /\ solid = map
        /\ done = {}
        /\ lastChanged = [a \in Agents |-> 0]
        /\ istate = [a \in Agents |-> StateNone]
        /\ tick = 0
        /\ phase = "in"
        /\ lastWrite = [a \in Agents |-> [by |-> "host", in |-> "None"]]
        /\ op = [name |-> "spawn", k |-> 0]
        /\ prev = [a \in Agents |-> [view |-> AgentView(a), by |-> "host", in |-> "None"]]

NextCollide == \E id \in Agents : Process(id)

SpecCollide == InitCollide /\ [][NextCollide]_vars

\* Where the host puts a2 when the agents do not move along one line: beside
\* a1, which stands at x = 0 on the line, or off the line by 0, 12/5, 4 or 5
\* tenths, with the combined radius 4 between a hit, a graze and a miss. The
\* velocities stay along x, so that every discriminant has a rational root.
ObliqueX == {2, 5, 9}
ObliqueY == {Rat(StartY, 1), Rat(5 * StartY + 12, 5), Rat(StartY + 4, 1), Rat(StartY + 5, 1)}
ObliqueVelocities == {-5, 0, 5}
\* The tile maps of such a step: no solid tile, or a solid tile east of the
\* tile of a1.
ObliqueMaps == {{}, {Tile("l1", 1, 0)}}

\* The state in which process starts in a fixed tick when a1 and a2, the two
\* agents of layer "l1", are not on one line: a3 has no layer and no tile.
InitOblique ==
    \E x \in ObliqueX, y \in ObliqueY, v1 \in StartVelocities, v2 \in ObliqueVelocities,
       map \in ObliqueMaps :
        /\ parent = [a \in Agents |-> IF a \in Loners THEN "world" ELSE "l1"]
        /\ transform = [a \in Agents |->
                          IF a = "a2" THEN Vec2(Rat(x, 1), y) ELSE RVec(0, StartY)]
        /\ velocity = [a \in Agents |->
                         CASE a = "a1" -> RVec(v1, 0)
                           [] a = "a2" -> RVec(v2, 0)
                           [] OTHER -> VecZero]
        /\ state = [a \in Agents |-> [position |-> transform[a], velocity |-> velocity[a]]]
        /\ tile = [a \in Agents |->
                     IF a \in Loners THEN None ELSE TileFloor("l1", transform[a], TileSize)]
        /\ events = <<>>
        /\ index = UpdateEach(<<>>, Entered(tile, 1))
        /\ layers = Layers
        /\ solid = map
        /\ done = {}
        /\ lastChanged = [a \in Agents |-> 0]
        /\ istate = [a \in Agents |-> StateNone]
        /\ tick = 0
        /\ phase = "in"
        /\ lastWrite = [a \in Agents |-> [by |-> "host", in |-> "None"]]
        /\ op = [name |-> "spawn", k |-> 0]
        /\ prev = [a \in Agents |-> [view |-> AgentView(a), by |-> "host", in |-> "None"]]

SpecOblique == InitOblique /\ [][NextCollide]_vars

-----------------------------------------------------------------------------
(* The life of agents and layers over the fixed ticks: the host attaches,   *)
(* detaches and despawns between the ticks; update_relative and             *)
(* update_index run one after the other in every tick.                      *)

\* The orders in which the workers of update_relative take the lock of the
\* message writer.
LockOrders == {<<"a1", "a2">>, <<"a2", "a1">>}

\* The tiles of a layer in which the agents stand at the fixed ticks: two
\* adjacent tiles, so that the agents of one layer are candidates of each other.
Places == {<<0, 0>>, <<1, 0>>}

\* The mutant of UpdateRelativeAgent for C16: the message does not carry the
\* cached tile as old.
UpdateRelativeAgentOldForgotten(acc, a, x, y) ==
    IF parent[a] \notin layers
    THEN acc
    ELSE LET new_tile == Tile(parent[a], x, y)
         IN [tile |-> [acc.tile EXCEPT ![a] = new_tile],
             events |-> IF acc.tile[a] # new_tile
                        THEN Append(acc.events, TileChanged(a, None, new_tile))
                        ELSE acc.events]

\* The closure of update_relative for agent a, whose position falls in the
\* tile (x, y) of its layer. The query takes the agents with an InLayer only,
\* and the body runs only when that entity is a Layer.
\* The mutant of UpdateRelativeAgent for C26: a message is written for every
\* agent update_relative visits, whether its tile has changed or not.
UpdateRelativeAgentAlwaysWritten(acc, a, x, y) ==
    IF parent[a] \notin layers
    THEN acc
    ELSE LET new_tile == Tile(parent[a], x, y)
         IN [tile |-> [acc.tile EXCEPT ![a] = new_tile],
             events |-> Append(acc.events, TileChanged(a, acc.tile[a], new_tile))]

UpdateRelativeAgent(acc, a, x, y) ==
    IF parent[a] \notin layers
    THEN acc
    ELSE LET new_tile == Tile(parent[a], x, y)
         IN [tile |-> [acc.tile EXCEPT ![a] = new_tile],
             events |-> IF acc.tile[a] # new_tile
                        THEN Append(acc.events, TileChanged(a, acc.tile[a], new_tile))
                        ELSE acc.events]

RECURSIVE UpdateRelativeEach(_, _, _, _)
UpdateRelativeEach(acc, order, at, i) ==
    IF i > Len(order)
    THEN acc
    ELSE UpdateRelativeEach(UpdateRelativeAgent(acc, order[i], at[order[i]][1], at[order[i]][2]),
                            order, at, i + 1)

\* History of the tick: the system that ran, and for every agent the cached
\* tile and the layer it had before update_relative.
Ran(name) == op' = [name |-> name, k |-> 0]

\* update_relative, the first system of the chain of a fixed tick, with the
\* agents at the tiles at: the tile is cached and written about, and the
\* position and the velocity are frozen, for every agent that has a layer.
UpdateRelativeRun(order, at) ==
    /\ LET new == UpdateRelativeEach([tile |-> tile, events |-> events], order, at, 1)
       IN /\ tile' = new.tile
          /\ events' = new.events
    /\ state' = [a \in Agents |->
                    IF parent[a] \in layers
                    THEN [position |-> transform[a], velocity |-> velocity[a]]
                    ELSE state[a]]
    /\ Ran("tile")
    /\ prev' = [a \in Agents |-> [tile |-> tile[a], parent |-> parent[a]]]
    /\ UNCHANGED <<index, transform, lastChanged, istate, tick, lastWrite,
                   velocity, parent, layers, solid, done>>

\* update_relative where the chain is the whole of a tick: the tick begins
\* with it.
UpdateRelativeSystem(order, at) ==
    /\ phase = "out"
    /\ UpdateRelativeRun(order, at)
    /\ phase' = "in"

\* update_index, the next system of the chain.
UpdateIndexRun ==
    /\ index' = UpdateEach(index, events)
    /\ events' = <<>>
    /\ Ran("index")
    /\ UNCHANGED <<tile, transform, lastChanged, istate, tick, lastWrite, prev, collideVars>>

\* update_index where the chain is the whole of a tick: the tick ends with it.
UpdateIndexSystem ==
    /\ phase = "in"
    /\ UpdateIndexRun
    /\ phase' = "out"

\* The host inserts InLayer(layer) on an agent: it attaches the agent, or moves
\* it from another layer.
InsertInLayer(a, layer) ==
    /\ phase = "out"
    /\ layer \in layers
    /\ parent[a] # layer
    /\ parent' = [parent EXCEPT ![a] = layer]
    /\ Ran("host")
    /\ UNCHANGED <<indexVars, transform, lastChanged, istate, tick, phase, lastWrite, prev,
                   state, velocity, layers, solid, done>>

\* The host removes the InLayer of an agent; its Position stays.
RemoveInLayer(a) ==
    /\ phase = "out"
    /\ parent[a] # "world"
    /\ parent' = [parent EXCEPT ![a] = "world"]
    /\ Ran("host")
    /\ UNCHANGED <<indexVars, transform, lastChanged, istate, tick, phase, lastWrite, prev,
                   state, velocity, layers, solid, done>>

\* The host despawns an agent: Position::on_replace runs for the Position that
\* goes away.
Despawn(a) ==
    /\ phase = "out"
    /\ parent[a] # "world" \/ tile[a] # None
    /\ events' = IF tile[a] # None
                 THEN Append(events, TileChanged(a, tile[a], None))
                 ELSE events
    /\ tile' = [tile EXCEPT ![a] = None]
    /\ parent' = [parent EXCEPT ![a] = "world"]
    /\ Ran("host")
    /\ UNCHANGED <<index, transform, lastChanged, istate, tick, phase, lastWrite, prev,
                   state, velocity, layers, solid, done>>

\* The host despawns a layer: LayerAgents is a relationship target without
\* linked_spawn, so its agents live on and lose their InLayer.
DespawnLayer(layer) ==
    /\ phase = "out"
    /\ layer \in layers
    /\ layers' = layers \ {layer}
    /\ parent' = [a \in Agents |-> IF parent[a] = layer THEN "world" ELSE parent[a]]
    /\ Ran("host")
    /\ UNCHANGED <<indexVars, transform, lastChanged, istate, tick, phase, lastWrite, prev,
                   state, velocity, solid, done>>

InitLayers == InitIndex /\ LerpAtRest /\ CollideAtRest

NextLayers ==
    \/ \E order \in LockOrders, at \in [Walkers -> Places] :
            UpdateRelativeSystem(order, at)
    \/ UpdateIndexSystem
    \/ \E a \in Walkers, layer \in Layers : InsertInLayer(a, layer)
    \/ \E a \in Walkers : RemoveInLayer(a)
    \/ \E a \in Walkers : Despawn(a)
    \/ \E layer \in Layers : DespawnLayer(layer)

SpecLayers == InitLayers /\ [][NextLayers]_vars

-----------------------------------------------------------------------------
(* One fixed tick, from the agents as the host placed them to the end of    *)
(* the collision step: update_relative, update_index and the workers of     *)
(* process, in the order of the chain.                                      *)

\* The orders in which the workers of update_relative take the lock, for the
\* three agents.
TickOrders == {<<"a1", "a2", "a3">>, <<"a3", "a2", "a1">>}

\* The tile coordinates of the agents' positions.
Floors ==
    [a \in Agents |-> <<TileX(TileFloor("l1", transform[a], TileSize)),
                        TileY(TileFloor("l1", transform[a], TileSize))>>]

\* The agents as the host spawned and placed them before the first fixed
\* tick: nothing cached, nothing indexed.
InitTick ==
    \E x \in [Agents -> UNION {StartX[a] : a \in Agents}], v \in [Agents -> StartVelocities],
       lone \in SUBSET Loners, map \in TileMaps :
        /\ \A a \in Agents : x[a] \in StartX[a]
        /\ \A a \in lone : x[a] = 15
        /\ InitIndex
        /\ parent = [a \in Agents |-> IF a \in lone THEN "world" ELSE "l1"]
        /\ layers = Layers
        /\ transform = [a \in Agents |-> RVec(x[a], StartY)]
        /\ velocity = [a \in Agents |-> RVec(v[a], 0)]
        /\ state = [a \in Agents |-> [position |-> VecZero, velocity |-> VecZero]]
        /\ solid = map
        /\ done = {}
        /\ lastChanged = [a \in Agents |-> 0]
        /\ istate = [a \in Agents |-> StateNone]
        /\ tick = 0
        /\ phase = "out"
        /\ lastWrite = [a \in Agents |-> [by |-> "host", in |-> "None"]]
        /\ op = [name |-> "spawn", k |-> 0]
        /\ prev = [a \in Agents |-> [view |-> AgentView(a), by |-> "host", in |-> "None"]]

NextTick ==
    \/ op.name = "spawn" /\ \E order \in TickOrders : UpdateRelativeSystem(order, Floors)
    \/ UpdateIndexSystem
    \/ op.name = "index" /\ \E id \in Agents : Process(id)

SpecTick == InitTick /\ [][NextTick]_vars

-----------------------------------------------------------------------------
(* The frames of the host, as the plugin adds its systems to the schedules: *)
(* RunFixedMainLoop runs the fixed main loop, which is no fixed tick, one   *)
(* or several, and then update_render; a fixed tick runs update_fixed in    *)
(* FixedFirst and the chain of update_tile, update_index and process in     *)
(* FixedPostUpdate, the default schedule of the plugin.                     *)

\* The walkers stand in layer l1; no system has run.
InitFrame ==
    /\ InitIndex
    /\ LerpAtRest
    /\ state = [a \in Agents |-> [position |-> Vec2(0, 0), velocity |-> Vec2(0, 0)]]
    /\ velocity = [a \in Agents |-> Vec2(0, 0)]
    /\ parent = [a \in Agents |-> IF a \in Walkers THEN "l1" ELSE "world"]
    /\ layers = Layers
    /\ solid = {}
    /\ done = {}

\* The schedules are between two fixed ticks: before the first, after the
\* end of the chain, or after update_render.
BetweenTicks == op.name \in {"spawn", "process", "render"}

\* FixedFirst: update_fixed begins a fixed tick.
FrameUpdateFixed ==
    /\ BetweenTicks
    /\ UpdateFixed

\* The first system of the chain, in the schedule after FixedFirst.
FrameUpdateTile(order, at) ==
    /\ op.name = "fixed"
    /\ UpdateRelativeRun(order, at)
    /\ UNCHANGED phase

\* The second system of the chain.
FrameUpdateIndex ==
    /\ op.name = "tile"
    /\ UpdateIndexRun
    /\ UNCHANGED phase

\* The mutant of FrameProcess for C23: process is not chained after
\* update_index and may run as soon as update_tile has.
FrameProcessUnchained(w) ==
    /\ op.name \in {"tile", "index"}
    /\ ProcessTransforms(w)

\* The last system of the chain ends the fixed tick.
FrameProcess(w) ==
    /\ op.name = "index"
    /\ ProcessTransforms(w)

\* RunFixedMainLoopSystems::AfterFixedMainLoop: update_render, once the
\* fixed ticks of the frame have run.
FrameUpdateRender(k) ==
    /\ BetweenTicks
    /\ UpdateRender(k)

NextFrame ==
    \/ FrameUpdateFixed
    \/ \E order \in LockOrders, at \in [Walkers -> Places] : FrameUpdateTile(order, at)
    \/ FrameUpdateIndex
    \/ \E w \in [Movers -> Positions \cup {None}] :
            FrameProcess([a \in Agents |-> IF a \in Movers THEN w[a] ELSE None])
    \/ \E k \in Alphas : FrameUpdateRender(k)

SpecFrame == InitFrame /\ [][NextFrame]_vars

-----------------------------------------------------------------------------
(* The fixed tick after a collision step: the workers of process move the   *)
(* agents, to the left of the origin and onto tile boundaries as well, and  *)
(* the update_relative of the next tick floors the positions they left.     *)

NextMoved ==
    \/ \E id \in Agents : Process(id)
    \/ /\ done = Agents
       /\ op.name = "spawn"
       /\ \E order \in TickOrders : UpdateRelativeRun(order, Floors)
       /\ UNCHANGED phase
    \/ /\ op.name = "tile"
       /\ UpdateIndexRun
       /\ UNCHANGED phase

SpecMoved == InitOblique /\ [][NextMoved]_vars

-----------------------------------------------------------------------------
(* Claims about the tile index.                                            *)

\* How many times agent a occurs in a bucket.
Count(agents, a) == Cardinality({i \in 1..Len(agents) : agents[i] = a})

\* t is one of the 9 tiles of ball(c, 1): same layer, Chebyshev distance <= 1.
InBall(t, c) ==
    /\ TileLayer(t) = TileLayer(c)
    /\ TileX(t) - TileX(c) \in {-1, 0, 1}
    /\ TileY(t) - TileY(c) \in {-1, 0, 1}

\* C1 (I1): once update_index has applied every message written so far, and the
\* messages of each agent are chained (each old is the agent's previous new,
\* None at first), an agent whose tile is c occurs exactly once in the bucket of
\* each of the 9 tiles of ball(c, 1) and in no other bucket, and an agent whose
\* tile is None occurs in no bucket.
InvI1 ==
    events = <<>> =>
        /\ DOMAIN index \subseteq AllTiles
        /\ \A a \in Agents, t \in AllTiles :
                Count(Get(index, t), a) =
                    IF tile[a] # None /\ InBall(t, tile[a]) THEN 1 ELSE 0

\* Witness of C1: both agents are indexed in the same layer after moves, and a
\* bucket of the overlap of their neighbourhoods holds the two of them.
WitI1 ==
    /\ events = <<>>
    /\ tile["a1"] = Tile("l1", 1, 1)
    /\ tile["a2"] = Tile("l1", 2, 0)
    /\ Len(Get(index, Tile("l1", 1, 0))) = 2
    /\ Get(index, Tile("l1", 0, 0)) = <<"a1">>

\* C2 (I2): whatever TileChanged messages are applied, also messages that
\* remove an agent from tiles it is not in, no bucket stored in the index is
\* empty.
InvI2 == \A t \in DOMAIN index : index[t] # <<>>

\* Witness of C2: a bucket of an inserted neighbourhood has lost its last agent
\* and is gone from the map, while another bucket of it is still stored.
WitI2 ==
    /\ Tile("l1", 0, 0) \notin DOMAIN index
    /\ Tile("l1", 2, 0) \in DOMAIN index

-----------------------------------------------------------------------------
(* Claims about the interpolation state machine. prev holds every agent's   *)
(* view and last writer before the system run that op names.                *)

\* C6, as claimed (I6): whenever the host's write is the last write to an
\* agent's transform before an update_render, that update_render sets the state
\* to None and leaves the transform at the host's value.
OrigI6 ==
    op.name = "render" =>
        \A a \in Agents :
            prev[a].by = "host" =>
                /\ istate[a] = StateNone
                /\ transform[a] = prev[a].view.transform

\* C6, amended: when the host's write is the last write to the transform before
\* an update_render and the host made it while the state was None or
\* Interpolated (outside a fixed step), that update_render sets the state to
\* None and does not touch the transform. (A write made while the state is
\* Fixed is taken for the movement of the step and interpolated.)
InvI6 ==
    op.name = "render" =>
        \A a \in Agents :
            (prev[a].by = "host" /\ prev[a].in # "Fixed") =>
                /\ istate[a] = StateNone
                /\ transform[a] = prev[a].view.transform
                /\ lastChanged[a] = prev[a].view.last_changed

\* Witness of C6: the host teleported the agent while it was interpolated, a
\* fixed tick passed without movement, and the render left it where the host
\* put it, away from the end of the cancelled interpolation.
WitI6 ==
    /\ op.name = "render"
    /\ prev["a1"].by = "host"
    /\ prev["a1"].in = "Interpolated"
    /\ prev["a1"].view.state.kind = "Fixed"
    /\ istate["a1"] = StateNone
    /\ transform["a1"] = Vec2(AlphaDen, AlphaDen)

\* C7: when update_render finds the state Interpolated and the host has written
\* the transform since the core's last write, the transform's change tick
\* differs from change_tick, the state becomes None and the transform is not
\* written: it keeps the host's value and its change tick.
InvC7 ==
    op.name = "render" =>
        \A a \in Agents :
            (prev[a].view.state.kind = "Interpolated" /\ prev[a].by = "host") =>
                /\ prev[a].view.last_changed # prev[a].view.state.change_tick
                /\ istate[a] = StateNone
                /\ transform[a] = prev[a].view.transform
                /\ lastChanged[a] = prev[a].view.last_changed

\* Witness of C7: an interpolation from (0, 0) was under way, the host wrote
\* another position, and the render cancelled.
WitC7 ==
    /\ op.name = "render"
    /\ prev["a1"].view.state.kind = "Interpolated"
    /\ prev["a1"].view.state.start = Vec2(0, 0)
    /\ prev["a1"].by = "host"
    /\ istate["a1"] = StateNone
    /\ transform["a1"] # prev["a1"].view.state.end

\* C8: the first update_render after a step that moved the agent sets the
\* transform to lerp(start, end, alpha) with start the position at the start of
\* the step and end the position the step produced; every further update_render
\* with no host write in between keeps start and end and sets the transform to
\* lerp(start, end, alpha) for its own alpha.
InvC8 ==
    op.name = "render" =>
        \A a \in Agents :
            LET before == prev[a].view
            IN /\ (before.state.kind = "Fixed" /\ before.transform # before.state.start) =>
                    /\ istate[a] = StateInterpolated(before.state.start, before.transform,
                                                     lastChanged[a])
                    /\ transform[a] = Lerp(before.state.start, before.transform, op.k)
               /\ (before.state.kind = "Interpolated" /\ prev[a].by = "core") =>
                    /\ istate[a] = StateInterpolated(before.state.start, before.state.end,
                                                     lastChanged[a])
                    /\ transform[a] = Lerp(before.state.start, before.state.end, op.k)

\* Witness of C8: a render with alpha > 0 had moved the transform off the start,
\* and a second render of the same step, with alpha = 0, put it back on it.
WitC8 ==
    /\ op.name = "render"
    /\ op.k = 0
    /\ prev["a1"].view.state.kind = "Interpolated"
    /\ prev["a1"].by = "core"
    /\ prev["a1"].view.transform # prev["a1"].view.state.start
    /\ istate["a1"].kind = "Interpolated"
    /\ transform["a1"] = istate["a1"].start

\* C9: when update_fixed finds the state Interpolated and nobody has written the
\* transform since the core's render write, the transform is set to end and the
\* state becomes Fixed with start = end.
InvC9 ==
    op.name = "fixed" =>
        \A a \in Agents :
            (prev[a].view.state.kind = "Interpolated" /\ prev[a].by = "core") =>
                /\ transform[a] = prev[a].view.state.end
                /\ istate[a] = StateFixed(prev[a].view.state.end)

\* Witness of C9: the transform held an interpolated position short of end, and
\* update_fixed put it on end.
WitC9 ==
    /\ op.name = "fixed"
    /\ prev["a1"].view.state.kind = "Interpolated"
    /\ prev["a1"].by = "core"
    /\ prev["a1"].view.transform # prev["a1"].view.state.end
    /\ transform["a1"] = prev["a1"].view.state.end

\* C10: when update_fixed finds the state Interpolated and the host has written
\* the transform since, the transform keeps the host's value (it is not
\* written) and the state becomes Fixed with start = that value.
InvC10 ==
    op.name = "fixed" =>
        \A a \in Agents :
            (prev[a].view.state.kind = "Interpolated" /\ prev[a].by = "host") =>
                /\ transform[a] = prev[a].view.transform
                /\ lastChanged[a] = prev[a].view.last_changed
                /\ istate[a] = StateFixed(prev[a].view.transform)

\* Witness of C10: the host's value differs from the end of the cancelled
\* interpolation, and update_fixed kept the host's value.
WitC10 ==
    /\ op.name = "fixed"
    /\ prev["a1"].view.state.kind = "Interpolated"
    /\ prev["a1"].by = "host"
    /\ prev["a1"].view.transform # prev["a1"].view.state.end
    /\ istate["a1"] = StateFixed(prev["a1"].view.transform)

InvC12 ==
    op.name = "render" =>
        \A a \in Agents :
            (\/ prev[a].view.state.kind = "None"
             \/ /\ prev[a].view.state.kind = "Fixed"
                /\ prev[a].view.transform = prev[a].view.state.start) =>
                /\ istate[a] = StateNone
                /\ transform[a] = prev[a].view.transform
                /\ lastChanged[a] = prev[a].view.last_changed

\* Witness of C12: a render after a fixed step in which nothing moved the
\* agent, whose transform was last written in an earlier tick.
WitC12 ==
    /\ op.name = "render"
    /\ prev["a1"].view.state.kind = "Fixed"
    /\ prev["a1"].view.transform = prev["a1"].view.state.start
    /\ prev["a1"].view.last_changed > 0
    /\ istate["a1"] = StateNone
    /\ lastChanged["a1"] = prev["a1"].view.last_changed
    /\ lastChanged["a1"] < tick

-----------------------------------------------------------------------------
(* Claims about the life of agents and layers.                             *)

\* The agents the collision step reads as candidates for agent a: the bucket
\* of a's cached tile.
Candidates(a) == IF tile[a] = None THEN {} ELSE {Get(index, tile[a])[i] : i \in 1..Len(Get(index, tile[a]))}

\* C13: when the collision step runs, after update_index, the candidates read
\* for an agent with the tile (L, x, y) are agents whose current tile is in
\* layer L, also when agents have moved from one layer to another.
InvC13 ==
    op.name = "index" =>
        \A a, b \in Agents :
            b \in Candidates(a) => (tile[b] # None /\ TileLayer(tile[b]) = TileLayer(tile[a]))

\* Witness of C13: a1 has moved from layer l1 to layer l2 and stands at the
\* coordinates at which a2 stands in l1; neither is a candidate of the other.
WitC13 ==
    /\ op.name = "index"
    /\ prev["a1"].tile # None /\ TileLayer(prev["a1"].tile) = "l1"
    /\ tile["a1"] = Tile("l2", 0, 0)
    /\ tile["a2"] = Tile("l1", 0, 0)
    /\ Candidates("a1") = {"a1"}
    /\ Candidates("a2") = {"a2"}

\* C14 as stated: an agent that was despawned or detached while its cached
\* tile was Some(c) is in no bucket after the next update_index.
OrigC14 ==
    op.name = "index" =>
        \A a \in Agents : parent[a] = "world" =>
            \A t \in DOMAIN index : Count(index[t], a) = 0

\* C15 as stated: after the update_index that follows the destruction of a
\* layer, no bucket of that layer remains in the index, so none of the agents
\* it contained is in a bucket of it.
OrigC15 ==
    op.name = "index" => \A t \in DOMAIN index : TileLayer(t) \in layers

\* C16: at the end of the update_index of a fixed tick, an agent that has a
\* layer (it was attached, or moved from another layer, before the tick) is in
\* exactly the 9 buckets of ball(c, 1) of its tile c in that layer, once in
\* each, and in no other bucket, in particular none of a former layer.
InvC16 ==
    op.name = "index" =>
        \A a \in Agents : parent[a] \in layers =>
            /\ tile[a] # None
            /\ TileLayer(tile[a]) = parent[a]
            /\ \A t \in AllTiles \cup DOMAIN index :
                    Count(Get(index, t), a) = IF InBall(t, tile[a]) THEN 1 ELSE 0

\* Witness of C16: a1 was in a tile of layer l1 before the tick and is in
\* layer l2 now, while a2 keeps the buckets of l1 in use.
WitC16 ==
    /\ op.name = "index"
    /\ prev["a1"].tile = Tile("l1", 1, 0)
    /\ prev["a1"].parent = "l2"
    /\ tile["a1"] = Tile("l2", 0, 0)
    /\ tile["a2"] = Tile("l1", 1, 0)
    /\ Get(index, Tile("l1", 1, 0)) = <<"a2">>
    /\ Get(index, Tile("l2", 1, 1)) = <<"a1">>

\* C17 as stated: after every update_tile, the cached tile of an agent is None
\* exactly when the agent has no layer.
OrigC17 ==
    op.name = "tile" =>
        \A a \in Agents : (tile[a] = None) <=> (parent[a] \notin layers)

-----------------------------------------------------------------------------
(* Claims about the collision step. state holds the positions and           *)
(* velocities at the start of the step; the step is over when every agent   *)
(* is in done.                                                              *)

\* The discs of a and b, centred at p and q, do not overlap.
Apart(p, q, a, b) ==
    ~RLess(LengthSquared(VSub(p, q)),
           Rat((Radius(a) + Radius(b)) * (Radius(a) + Radius(b)), 1))

\* a and b are agents of the same layer: each has its layer, and their tiles
\* are tiles of it.
SameLayer(a, b) ==
    /\ parent[a] \in layers
    /\ parent[b] \in layers
    /\ tile[a] # None
    /\ tile[b] # None
    /\ TileLayer(tile[a]) = TileLayer(tile[b])

\* a has no candidate contact but b: no third agent in the bucket of its tile,
\* no solid tile next to its tile.
OnlyCandidate(a, b) ==
    /\ \A i \in 1..Len(Get(index, tile[a])) : Get(index, tile[a])[i] \in {a, b}
    /\ Boundaries(tile[a]) = <<>>

\* C3, as claimed (I3): after the collision step, every two agents of the same
\* layer that did not overlap at the start of the step are at a distance of at
\* least r1 + r2, however many agents move in the step.
OrigI3 ==
    done = Agents =>
        \A a, b \in Agents :
            (a # b /\ SameLayer(a, b) /\ Apart(state[a].position, state[b].position, a, b))
                => Apart(transform[a], transform[b], a, b)

\* C3, amended: after the collision step, two agents of the same layer that did
\* not overlap at the start of the step are at a distance of at least r1 + r2,
\* provided their tiles are within Chebyshev distance 1 of each other and
\* neither has another candidate contact in the step (no third agent in the
\* bucket of its tile, no solid tile next to its tile).
InvI3 ==
    done = Agents =>
        \A a, b \in Agents :
            (/\ a # b
             /\ SameLayer(a, b)
             /\ InBall(tile[a], tile[b])
             /\ OnlyCandidate(a, b)
             /\ OnlyCandidate(b, a)
             /\ Apart(state[a].position, state[b].position, a, b))
                => Apart(transform[a], transform[b], a, b)

\* Witness of C3: two agents alone in their layer ran into each other head-on,
\* and both stopped where their discs touch: at x = 3 and x = 7.
WitI3 ==
    /\ done = Agents
    /\ tile["a3"] = None
    /\ solid = {}
    /\ state["a1"].velocity = RVec(5, 0)
    /\ state["a2"].velocity = RVec(-5, 0)
    /\ transform["a1"] = RVec(3, StartY)
    /\ transform["a2"] = RVec(7, StartY)

\* C4, as claimed (I4): after the collision step every agent's Velocity has a
\* magnitude of at most 0.5 * tile_size / dt.
OrigI4 ==
    done = Agents =>
        \A a \in Agents :
            ~RLess(Rat(TileSize * TileSize, 1),
                   RMul(Rat(4 * DeltaSecs * DeltaSecs, 1), LengthSquared(velocity[a])))

\* C5 (I5): an agent whose velocity is zero at the start of the step has, after
\* the step, the transform position it had at the start and a zero velocity,
\* whatever the other agents did.
InvI5 ==
    done = Agents =>
        \A a \in Agents :
            state[a].velocity = VecZero =>
                /\ transform[a] = state[a].position
                /\ velocity[a] = VecZero

\* Witness of C5: a1 ran into a2, which stood still, and stopped where the
\* discs touch; a2 is where it was.
WitI5 ==
    /\ done = Agents
    /\ state["a2"].velocity = VecZero
    /\ state["a1"].velocity = RVec(5, 0)
    /\ state["a1"].position = RVec(5, StartY)
    /\ transform["a1"] = RVec(6, StartY)
    /\ transform["a2"] = state["a2"].position

\* An agent the collision step cannot process: no cached tile, or a parent
\* that is no Layer.
Invalid(a) == tile[a] = None \/ parent[a] \notin layers

\* C18: the collision step does nothing for an agent whose cached tile is None
\* or whose parent is no Layer: its transform and its velocity are not written
\* (the values and the change tick of the transform are those of before), and
\* the step goes on for the others: every processed agent with a tile, a layer
\* and a velocity has had its transform written.
InvC18 ==
    \A a \in done :
        IF Invalid(a)
        THEN /\ transform[a] = state[a].position
             /\ velocity[a] = state[a].velocity
             /\ lastChanged[a] = 0
        ELSE state[a].velocity # VecZero => lastChanged[a] = tick + 1

\* Witness of C18: a3 has a cached tile, a velocity and no layer; the step
\* is over, a3 is where it was with the velocity it had, and a1 and a2 have
\* been written.
WitC18 ==
    /\ done = Agents
    /\ tile["a3"] # None
    /\ parent["a3"] \notin layers
    /\ state["a3"].velocity = RVec(5, 0)
    /\ transform["a3"] = state["a3"].position
    /\ velocity["a3"] = RVec(5, 0)
    /\ lastChanged["a1"] = 1
    /\ lastChanged["a2"] = 1
    /\ transform["a1"] # state["a1"].position

\* What the worker of agent a leaves when it runs on the components a had at
\* the start of the step, as the state is now.
Alone(a) == ProcessAgentWith(a, state[a].position, state[a].velocity)

\* C19: the result of the collision step does not depend on the order in
\* which the workers run: an agent that has been processed, after whichever
\* others, has the transform and the velocity its worker leaves when run on
\* the state as it is after any further workers, and an agent still to be
\* processed has the transform and the velocity of the start of the step.
InvC19 ==
    \A a \in Agents :
        IF a \in done
        THEN /\ transform[a] = Alone(a).transform
             /\ velocity[a] = Alone(a).velocity
             /\ lastChanged[a] = IF Alone(a).wrote THEN tick + 1 ELSE 0
        ELSE /\ transform[a] = state[a].position
             /\ velocity[a] = state[a].velocity
             /\ lastChanged[a] = 0

\* Witness of C19: a1 and a2 have been processed, in either order, and a3 has
\* not; a2 has moved, and a1, whose nearest contact was a2, has stopped on it.
WitC19 ==
    /\ done = {"a1", "a2"}
    /\ transform["a2"] # state["a2"].position
    /\ NearestCollision("a1") # None
    /\ NearestCollision("a1").collision = [kind |-> "Agent", target |-> "a2"]
    /\ transform["a1"] # state["a1"].position
    /\ velocity["a1"] # state["a1"].velocity

\* C20: within a fixed tick the TileIndex is modified by update_index only and
\* the AgentState (position, velocity, cached tile) by update_relative only;
\* a worker of process writes the transform and the velocity of its agent and
\* leaves the TileIndex, every AgentState and the messages as they are.
InvC20 ==
    [][/\ index' # index => (op.name = "tile" /\ op'.name = "index")
       /\ (state' # state \/ tile' # tile) => (op.name = "spawn" /\ op'.name = "tile")
       /\ done' # done => UNCHANGED <<index, state, tile, events>>]_vars

\* Witness of C20: the three systems have run; a1 and a2 are indexed and
\* frozen, and the workers have moved them from their frozen positions.
WitC20 ==
    /\ op.name = "index"
    /\ done = Agents
    /\ Len(Get(index, Tile("l1", 0, 0))) = 2
    /\ state["a1"].position = RVec(5, StartY)
    /\ transform["a1"] # state["a1"].position
    /\ transform["a2"] # state["a2"].position
    /\ velocity["a1"] # state["a1"].velocity

-----------------------------------------------------------------------------
(* Claims about TileIndex::update as a function of the index and a message. *)

\* Agent a is in no bucket of the index.
Absent(a) == \A t \in DOMAIN index : Count(index[t], a) = 0

\* The index after TileChanged{a, None, Some(c)}.
Entering(a, c) == Update(index, TileChanged(a, None, c))

\* C21: from any index state, for an agent that is in no bucket, applying
\* TileChanged{agent, None, Some(c)} and then TileChanged{agent, Some(c), None}
\* gives back the index as it was: the same keys and the same buckets in the
\* same order, no empty bucket left behind.
InvC21 ==
    \A a \in Agents, c \in AgentTiles :
        Absent(a) => Update(Entering(a, c), TileChanged(a, c, None)) = index

\* Witness of C21: a bucket holds a1 and a2, a3 is in no bucket, and a3
\* entering next to them adds it to that bucket and creates new buckets.
WitC21 ==
    /\ Get(index, Tile("l1", 0, 0)) = <<"a1", "a2">>
    /\ Absent("a3")
    /\ Get(Entering("a3", Tile("l1", 1, 1)), Tile("l1", 0, 0)) = <<"a1", "a2", "a3">>
    /\ Tile("l1", 2, 2) \notin DOMAIN index
    /\ Tile("l1", 2, 2) \in DOMAIN Entering("a3", Tile("l1", 1, 1))

\* The tiles at Chebyshev distance 1 of tile c on which an agent can stand.
Steps(c) == {b \in AgentTiles : b # c /\ InBall(b, c)}

\* The index after the move of a from its tile to b, as TileIndex::update
\* makes it.
Moved(a, b) == Update(index, TileChanged(a, tile[a], b))

\* The index after a is removed from the 9 tiles around its tile and inserted
\* in the 9 tiles around b.
Reinserted(a, b) == InsertNeighborhood(RemoveNeighborhood(index, a, tile[a]), a, b)

\* Two indexes have the same keys and, in every bucket, the same agents the
\* same number of times.
SameMembers(i1, i2) ==
    /\ DOMAIN i1 = DOMAIN i2
    /\ \A t \in DOMAIN i1, a \in Agents : Count(i1[t], a) = Count(i2[t], a)

\* C22 as stated: for every same-layer move of an indexed agent to a tile at
\* Chebyshev distance 1, whatever other agents the buckets hold, the update
\* gives the same index state, buckets as they are stored, as removing the
\* agent from the 9 tiles of the old ball and inserting it in the 9 of the new.
OrigC22 ==
    events = <<>> =>
        \A a \in Agents : tile[a] # None =>
            \A b \in Steps(tile[a]) : Moved(a, b) = Reinserted(a, b)

\* C22: for every same-layer move of an indexed agent to a tile at Chebyshev
\* distance 1, whatever other agents the buckets hold, the update gives an
\* index with the same keys and the same members in every bucket as removing
\* the agent from the 9 tiles of the old ball and inserting it in the 9 of the
\* new; and with the very same buckets when the agent is the last entry of
\* every bucket it is in.
InvC22 ==
    events = <<>> =>
        \A a \in Agents : tile[a] # None =>
            \A b \in Steps(tile[a]) :
                /\ SameMembers(Moved(a, b), Reinserted(a, b))
                /\ (\A t \in DOMAIN index :
                        Count(index[t], a) = 0 \/ index[t][Len(index[t])] = a)
                    => Moved(a, b) = Reinserted(a, b)

\* Witness of C22: a1 is ahead of a2 in a bucket of the overlap of the old and
\* the new ball; the update leaves that bucket as it is, removing and
\* inserting again puts a1 behind a2.
WitC22 ==
    /\ events = <<>>
    /\ tile["a1"] = Tile("l1", 1, 0)
    /\ tile["a2"] = Tile("l1", 1, 1)
    /\ Get(index, Tile("l1", 1, 0)) = <<"a1", "a2">>
    /\ Get(Moved("a1", Tile("l1", 2, 1)), Tile("l1", 1, 0)) = <<"a1", "a2">>
    /\ Get(Reinserted("a1", Tile("l1", 2, 1)), Tile("l1", 1, 0)) = <<"a2", "a1">>
    /\ SameMembers(Moved("a1", Tile("l1", 2, 1)), Reinserted("a1", Tile("l1", 2, 1)))


-----------------------------------------------------------------------------
(* Claims about the order of the systems in a frame.                        *)

\* C23: in every fixed tick the systems run in the order update_fixed,
\* update_tile, update_index, process, each one whole before the next, and
\* update_render runs only between fixed ticks, after the fixed loop; so when
\* process starts, no message of the tick is left unapplied, every agent of a
\* layer has a cached tile, and every agent is once in each of the 9 buckets
\* around its cached tile and in no other bucket.
InvC23 ==
    [][/\ op'.name = "fixed" => BetweenTicks
       /\ op'.name = "tile" => op.name = "fixed"
       /\ op'.name = "index" => op.name = "tile"
       /\ op'.name = "render" => BetweenTicks
       /\ op'.name = "process" =>
            /\ op.name = "index"
            /\ events = <<>>
            /\ \A a \in Agents : parent[a] \in layers => tile[a] # None
            /\ \A a \in Agents, t \in AllTiles \cup DOMAIN index :
                    Count(Get(index, t), a) =
                        IF tile[a] # None /\ InBall(t, tile[a]) THEN 1 ELSE 0]_vars

\* Witness of C23: process has run in a second fixed tick, in which a1 moved
\* from the tile of a2 to the next one; the index follows the cached tiles.
WitC23 ==
    /\ op.name = "process"
    /\ tick >= 4
    /\ prev["a1"].view.state.kind = "Fixed"
    /\ tile["a1"] = Tile("l1", 1, 0)
    /\ tile["a2"] = Tile("l1", 0, 0)
    /\ events = <<>>
    /\ Get(index, Tile("l1", 2, 0)) = <<"a1">>
    /\ Get(index, Tile("l1", -1, 0)) = <<"a2">>
    /\ Len(Get(index, Tile("l1", 0, 0))) = 2


-----------------------------------------------------------------------------
(* Claims about the messages between update_tile and update_index.          *)

RECURSIVE AppliedUpTo(_, _, _)
\* The index after the first n messages of evs, the n-th applied last.
AppliedUpTo(idx, evs, n) ==
    IF n = 0 THEN idx ELSE Update(AppliedUpTo(idx, evs, n - 1), evs[n])

\* C24: every message written is applied to the index exactly once: a step
\* other than update_index keeps the messages that wait, in their order, and
\* leaves the index alone; update_index applies all the waiting messages, the
\* first written first, and leaves none to be applied again.
InvC24 ==
    [][IF op'.name = "index"
       THEN /\ index' = AppliedUpTo(index, events, Len(events))
            /\ events' = <<>>
       ELSE /\ index' = index
            /\ Len(events') >= Len(events)
            /\ SubSeq(events', 1, Len(events)) = events]_vars

\* Witness of C24: update_index has applied two messages of one tick, the
\* one of a2 written before the one of a1, and none waits.
WitC24 ==
    /\ op.name = "index"
    /\ events = <<>>
    /\ prev["a1"].tile = None
    /\ prev["a2"].tile = None
    /\ tile["a1"] = Tile("l1", 0, 0)
    /\ tile["a2"] = Tile("l1", 1, 0)
    /\ Get(index, Tile("l1", 0, 0)) = <<"a2", "a1">>


\* The messages that wait after update_relative has run from the present
\* state, with the agents at the tiles at and the workers taking the lock of
\* the writer in the given order.
Written(order, at) ==
    UpdateRelativeEach([tile |-> tile, events |-> events], order, at, 1).events

\* C25 as stated: from a given state at the start of update_tile, the
\* messages that update_index will see are in the same order whatever the
\* order in which the workers take the lock of the writer.
OrigC25 ==
    phase = "out" =>
        \A at \in [Walkers -> Places], o1 \in LockOrders, o2 \in LockOrders :
            Written(o1, at) = Written(o2, at)


\* The messages of evs that are about agent a, in their order.
EventsOf(evs, a) == SelectSeq(evs, LAMBDA e : e.agent = a)

\* C26: update_tile writes exactly one message for an agent it visits when
\* the tile it computes, a tile of the agent's layer, differs from the cached
\* one, with old the cached tile and new the computed one, and no message
\* otherwise; afterwards the cache is the computed tile. So among the messages
\* that wait, each message of an agent has for old the new of the agent's
\* message before, and the new of the last is the agent's cached tile.
InvC26 ==
    /\ [](\A a \in Agents :
            LET q == EventsOf(events, a)
            IN /\ \A i \in 2..Len(q) : q[i].old = q[i - 1].new
               /\ q # <<>> => q[Len(q)].new = tile[a])
    /\ [][op'.name = "tile" =>
            \A a \in Agents :
                LET w == EventsOf(SubSeq(events', Len(events) + 1, Len(events')), a)
                IN IF parent[a] \in layers
                   THEN /\ tile'[a] # None
                        /\ TileLayer(tile'[a]) = parent[a]
                        /\ w = IF tile'[a] # tile[a]
                               THEN <<TileChanged(a, tile[a], tile'[a])>>
                               ELSE <<>>
                   ELSE /\ tile'[a] = tile[a]
                        /\ w = <<>>]_vars

\* Witness of C26: update_tile has found a1 in its cached tile and a2 in the
\* tile next to its cached one, and has written the one message of a2.
WitC26 ==
    /\ op.name = "tile"
    /\ parent["a1"] = "l1"
    /\ parent["a2"] = "l1"
    /\ prev["a1"].tile = Tile("l1", 0, 0)
    /\ tile["a1"] = Tile("l1", 0, 0)
    /\ prev["a2"].tile = Tile("l1", 0, 0)
    /\ tile["a2"] = Tile("l1", 1, 0)
    /\ events = <<TileChanged("a2", Tile("l1", 0, 0), Tile("l1", 1, 0))>>


-----------------------------------------------------------------------------
(* Claims about the contact the collision step solves for and selects.      *)

\* The swept test of two discs agrees with the quadratic a t^2 + b t + c of
\* the squared distance minus the squared combined radius: no contact when
\* a = 0, when the discriminant is negative, or when the earlier root is not
\* positive and b >= 0; otherwise the result t is a root, the earlier one (the
\* quadratic does not rise there), and t > 0 or b < 0.
SweptTest(delta_position, delta_velocity, combined_radius) ==
    LET a == Dot(delta_velocity, delta_velocity)
        b == RMul(Rat(2, 1), Dot(delta_position, delta_velocity))
        c == RSub(Dot(delta_position, delta_position),
                  Rat(combined_radius * combined_radius, 1))
        earlier_positive == RLess(Zero, c) /\ RLess(b, Zero)
        t == SolveAgentCollision(delta_position, delta_velocity, combined_radius)
    IN IF \/ a = Zero
          \/ RLess(RMul(b, b), RMul(Rat(4, 1), RMul(a, c)))
          \/ (~earlier_positive /\ ~RLess(b, Zero))
       THEN t = None
       ELSE /\ t # None
            /\ RAdd(RMul(a, RMul(t, t)), RAdd(RMul(b, t), c)) = Zero
            /\ ~RLess(Zero, RAdd(RMul(Rat(2, 1), RMul(a, t)), b))
            /\ RLess(Zero, t) <=> earlier_positive
            /\ RLess(Zero, t) \/ RLess(b, Zero)

\* C27: for every two agents as the collision step reads them, the swept test
\* of their discs gives no contact when a = 0 or the discriminant is negative,
\* and otherwise the earlier root t of the quadratic, returned when t > 0, or
\* when t <= 0 and b < 0, and no contact when t <= 0 and b >= 0.
InvC27 ==
    \A id \in Agents, target \in Agents :
        (id # target /\ tile[id] # None /\ tile[target] # None) =>
            SweptTest(VSub(state[target].position, state[id].position),
                      VSub(state[target].velocity, state[id].velocity),
                      Radius(id) + Radius(target))

\* Witness of C27: a1 moves along the line towards a2, which stands 12/5 off
\* the line; the discs touch after 9/25 of a second, and the worker of a1 has
\* left a1 there.
WitC27 ==
    /\ "a1" \in done
    /\ state["a1"].velocity = RVec(5, 0)
    /\ state["a2"].velocity = VecZero
    /\ state["a2"].position = Vec2(Rat(5, 1), Rat(37, 5))
    /\ SolveAgentCollision(VSub(state["a2"].position, state["a1"].position),
                           VSub(state["a2"].velocity, state["a1"].velocity),
                           Radius("a1") + Radius("a2")) = Rat(9, 25)
    /\ transform["a1"] = Vec2(Rat(9, 5), Rat(StartY, 1))


\* The candidate contacts of agent id with their times: one for every other
\* agent in the bucket of its tile, one for every wall of its tile, where the
\* solver finds a contact.
CandidateContacts(id) ==
    LET others == {g \in Agents \ {id} : Count(Get(index, tile[id]), g) > 0}
        walls == Boundaries(tile[id])
        all == {[collision |-> [kind |-> "Agent", target |-> g],
                 t |-> SolveAgentCollision(VSub(state[g].position, state[id].position),
                                           VSub(state[g].velocity, state[id].velocity),
                                           Radius(id) + Radius(g))] : g \in others}
               \cup
               {[collision |-> [kind |-> "Wall", normal |-> walls[i].normal],
                 t |-> SolveWallCollision(state[id].position, state[id].velocity, Radius(id),
                                          walls[i].position, walls[i].normal, TileSize)] :
                    i \in DOMAIN walls}
    IN {c \in all : c.t # None}

\* C28: the collision step selects for an agent, among the other agents in
\* the bucket of its tile and the walls of the solid tiles next to its tile,
\* a contact with the smallest time among those below the step: a contact at
\* or after the end of the step is never selected, and no contact is selected
\* only when no candidate is below the step.
InvC28 ==
    \A id \in Agents :
        tile[id] # None =>
            LET nearest == NearestCollision(id)
                within == {c \in CandidateContacts(id) : FLess(c.t, Rat(DeltaSecs, 1))}
            IN IF within = {}
               THEN nearest = None
               ELSE /\ nearest \in within
                    /\ \A c \in within : ~FLess(c.t, nearest.t)

\* Witness of C28: a1 closes in on a2, which it reaches after 3/5 of a
\* second, and a3 behind a2 is a candidate at or after the end of the step;
\* the contact with a2 is selected, and the worker of a1 has stopped a1 there.
WitC28 ==
    /\ "a1" \in done
    /\ state["a1"].position = RVec(0, StartY)
    /\ state["a1"].velocity = RVec(5, 0)
    /\ state["a2"].velocity = RVec(-5, 0)
    /\ Cardinality(CandidateContacts("a1")) = 2
    /\ \E c \in CandidateContacts("a1") : ~FLess(c.t, Rat(DeltaSecs, 1))
    /\ NearestCollision("a1") = [collision |-> [kind |-> "Agent", target |-> "a2"],
                                 t |-> Rat(3, 5)]
    /\ transform["a1"] = RVec(3, StartY)


-----------------------------------------------------------------------------
(* Claims about what the collision step writes.                             *)

Cross(u, v) == RSub(RMul(u[1], v[2]), RMul(u[2], v[1]))

\* C30: when the contact selected for an agent is with another agent, and n is
\* the unit vector from the target's place at the contact to the agent's, the
\* worker leaves the velocity vel - (vel . n) n when vel . n < 0: nothing of it
\* along n, and what it had across n; it leaves the velocity as it was when
\* vel . n >= 0 or when the two places coincide. The two places are a combined
\* radius apart when the contact is ahead.
InvC30 ==
    \A id \in done :
        (state[id].velocity # VecZero /\ tile[id] # None /\ parent[id] \in layers) =>
            LET nearest == NearestCollision(id)
            IN (nearest # None /\ nearest.collision.kind = "Agent") =>
                LET vel == state[id].velocity
                    target == state[nearest.collision.target]
                    s == IF FLess(Zero, nearest.t) THEN nearest.t ELSE Zero
                    d == VSub(VAdd(state[id].position, VScale(vel, s)),
                              VAdd(target.position, VScale(target.velocity, s)))
                    r == Radius(id) + Radius(nearest.collision.target)
                IN /\ FLess(Zero, nearest.t) => LengthSquared(d) = Rat(r * r, 1)
                   /\ IF d # VecZero /\ RLess(Dot(vel, d), Zero)
                      THEN /\ Dot(velocity[id], d) = Zero
                           /\ Cross(velocity[id], d) = Cross(vel, d)
                      ELSE velocity[id] = vel

\* Witness of C30: a1 moves along the line and meets a2, which stands 12/5
\* off the line; the normal is (-4/5, -3/5), and the worker of a1 has taken the
\* part of the velocity along it away: (5, 0) has become (9/5, -12/5).
WitC30 ==
    /\ "a1" \in done
    /\ state["a1"].velocity = RVec(5, 0)
    /\ state["a2"].position = Vec2(Rat(5, 1), Rat(37, 5))
    /\ state["a2"].velocity = VecZero
    /\ NearestCollision("a1") # None
    /\ NearestCollision("a1").collision = [kind |-> "Agent", target |-> "a2"]
    /\ velocity["a1"] = Vec2(Rat(9, 5), Rat(-12, 5))


-----------------------------------------------------------------------------
(* Claims about the walls.                                                  *)

\* The velocity of agent id along the normal of a contact: towards the wall
\* when positive.
Towards(id, collision) == Dot(state[id].velocity, Contact(collision, state[id], Zero).direction)

\* C31 as stated: a wall towards which the projected velocity of the agent is
\* zero or negative is never the contact selected for it, and the agent
\* advances by its velocity times the step when no agent and no wall it moves
\* towards is a candidate within the step.
OrigC31 ==
    \A id \in done :
        (state[id].velocity # VecZero /\ tile[id] # None /\ parent[id] \in layers) =>
            LET nearest == NearestCollision(id)
                reachable == {c \in CandidateContacts(id) :
                                /\ FLess(c.t, Rat(DeltaSecs, 1))
                                /\ c.collision.kind = "Wall" =>
                                        RLess(Zero, Towards(id, c.collision))}
            IN /\ (nearest # None /\ nearest.collision.kind = "Wall") =>
                        RLess(Zero, Towards(id, nearest.collision))
               /\ reachable = {} =>
                        transform[id] = VAdd(state[id].position,
                                             VScale(state[id].velocity, Rat(DeltaSecs, 1)))


\* C32 as stated: when the contact selected for an agent is a wall the agent
\* moves towards, the worker leaves a velocity with no component towards that
\* wall and with the component along the wall it had.
OrigC32 ==
    \A id \in done :
        (state[id].velocity # VecZero /\ tile[id] # None /\ parent[id] \in layers) =>
            LET nearest == NearestCollision(id)
            IN (/\ nearest # None
                /\ nearest.collision.kind = "Wall"
                /\ RLess(Zero, Towards(id, nearest.collision))) =>
                    LET n == Contact(nearest.collision, state[id], Zero).direction
                    IN /\ Dot(velocity[id], n) = Zero
                       /\ Cross(velocity[id], n) = Cross(state[id].velocity, n)


-----------------------------------------------------------------------------
(* Further claims about the interpolation state machine.                    *)

InvC35 ==
    op.name = "render" =>
        \A a \in Agents :
            istate[a].kind = "Interpolated" =>
                /\ istate[a].change_tick = lastChanged[a]
                /\ lastChanged[a] = tick
                /\ transform[a] = Lerp(istate[a].start, istate[a].end, op.k)

\* Witness of C35: a render half way through the overstep, after a step that
\* moved the agent from (0, 0): the transform is half way to end.
WitC35 ==
    /\ op.name = "render"
    /\ op.k = 1
    /\ istate["a1"] = StateInterpolated(Vec2(0, 0), Vec2(AlphaDen, 0), tick)
    /\ transform["a1"] = Vec2(1, 0)
    /\ prev["a1"].view.state.kind = "Fixed"


-----------------------------------------------------------------------------
(* Further claims about the tiles.                                          *)

\* C36: the tile cached for an agent is the tile of the agent's layer whose
\* square holds the frozen position, the lower and the left edge included and
\* the upper and the right edge not: both quotients are rounded towards minus
\* infinity, a position left of or below the origin falls in a tile with a
\* negative coordinate, a position on a boundary in the tile that starts
\* there, and the layer is the agent's.
InvC36 ==
    \A a \in Agents :
        (tile[a] # None /\ parent[a] \in layers) =>
            LET p == state[a].position
                lo(k) == Rat(k * TileSize, 1)
            IN /\ TileLayer(tile[a]) = parent[a]
               /\ ~RLess(p[1], lo(TileX(tile[a])))
               /\ RLess(p[1], lo(TileX(tile[a]) + 1))
               /\ ~RLess(p[2], lo(TileY(tile[a])))
               /\ RLess(p[2], lo(TileY(tile[a]) + 1))

\* Witness of C36: the collision step has moved a1 to x = -5, half a tile left
\* of the origin, and a2 to x = 10, on the boundary of the tiles 0 and 1; the
\* next update_relative has cached the tile -1 for a1 and the tile 1 for a2.
WitC36 ==
    /\ op.name = "index"
    /\ state["a1"].position = RVec(-5, StartY)
    /\ tile["a1"] = Tile("l1", -1, 0)
    /\ state["a2"].position = Vec2(Rat(10, 1), Rat(37, 5))
    /\ tile["a2"] = Tile("l1", 1, 0)

\* C37 (broad-phase completeness): once update_index has applied every message
\* written so far, so that I1 holds, any two distinct agents whose tiles are in
\* the same layer and within Chebyshev distance 1 of each other are each in the
\* bucket of the other's own tile: each is a candidate contact of the other.
InvC37 ==
    events = <<>> =>
        \A a, b \in Agents :
            (a # b /\ tile[a] # None /\ tile[b] # None /\ InBall(tile[a], tile[b])) =>
                /\ b \in Candidates(a)
                /\ a \in Candidates(b)

\* Witness of C37: after moves, a1 and a2 stand on tiles that touch at a corner
\* only, and each is in the bucket of the other's tile.
WitC37 ==
    /\ events = <<>>
    /\ tile["a1"] = Tile("l1", 0, 0)
    /\ tile["a2"] = Tile("l1", 1, 1)
    /\ Get(index, Tile("l1", 0, 0)) = <<"a2", "a1">>
    /\ "a1" \in Candidates("a2")

\* The messages an agent can be the subject of: any old and new among the tiles
\* of two layers and None.
MessagesOf(a) ==
    {TileChanged(a, old, new) : old \in AnyTiles \cup {None}, new \in AnyTiles \cup {None}}

\* The index after message e1 and then message e2.
Both(e1, e2) == Update(Update(index, e1), e2)

\* C38: the messages of two distinct agents commute: from any index state,
\* applying one and then the other gives, in either order, the same keys and in
\* every bucket the same agents, so the order in which the workers took the
\* lock of the writer does not change which agents a bucket holds.
InvC38 ==
    \A a, b \in Agents : a # b =>
        \A e1 \in MessagesOf(a), e2 \in MessagesOf(b) :
            SameMembers(Both(e1, e2), Both(e2, e1))

\* Witness of C38: a1 is indexed alone in layer l2; it changes to layer l1
\* while a2 enters on the same tile of l1. The two orders store the buckets of
\* l1 in different orders, with the same agents, and leave no bucket of l2.
WitC38 ==
    LET e1 == TileChanged("a1", Tile("l2", 0, 0), Tile("l1", 0, 0))
        e2 == TileChanged("a2", None, Tile("l1", 0, 0))
    IN /\ Get(index, Tile("l2", 0, 0)) = <<"a1">>
       /\ Absent("a2")
       /\ Both(e1, e2) # Both(e2, e1)
       /\ SameMembers(Both(e1, e2), Both(e2, e1))
       /\ Get(Both(e1, e2), Tile("l1", 0, 0)) = <<"a1", "a2">>
       /\ Get(Both(e2, e1), Tile("l1", 0, 0)) = <<"a2", "a1">>
       /\ Tile("l2", 0, 0) \notin DOMAIN Both(e1, e2)

\* C39 (phases of the state machine): right after update_fixed the state of
\* every agent is Fixed; right after update_render no state is Fixed, each is
\* Interpolated or None; and an agent whose state is None stays None through
\* every step that is not update_fixed, a render frame leaving its transform
\* and the change tick of its transform as they were.
InvC39 ==
    /\ [](/\ op.name = "fixed" => \A a \in Agents : istate[a].kind = "Fixed"
          /\ op.name = "render" =>
                \A a \in Agents : istate[a].kind \in {"Interpolated", "None"})
    /\ [][\A a \in Agents :
            (istate[a] = StateNone /\ op'.name # "fixed") =>
                /\ istate'[a] = StateNone
                /\ op'.name = "render" =>
                        /\ transform'[a] = transform[a]
                        /\ lastChanged'[a] = lastChanged[a]]_vars

\* Witness of C39: a render frame found a1 in None, two runs or more after the
\* last write of its transform, and left it in None with the transform as it
\* was, away from where the agent was spawned.
WitC39 ==
    /\ op.name = "render"
    /\ prev["a1"].view.state = StateNone
    /\ istate["a1"] = StateNone
    /\ transform["a1"] = prev["a1"].view.transform
    /\ lastChanged["a1"] = prev["a1"].view.last_changed
    /\ lastChanged["a1"] > 0
    /\ lastChanged["a1"] + 1 < tick
    /\ istate["a2"] = StateNone

-----------------------------------------------------------------------------
(* Walls and the position the collision step leaves.                        *)

\* The coordinate of position p along the normal of a wall.
Projected(p, normal) ==
    CASE normal = "North" -> p[2]
      [] normal = "South" -> RNeg(p[2])
      [] normal = "East" -> p[1]
      [] normal = "West" -> RNeg(p[1])

\* At position p the edge of agent id is not beyond the line of the wall:
\* projected position + radius <= wall coordinate.
OnNearSide(id, p, wall) ==
    ~RLess(Rat(wall.position * TileSize, 1),
           RAdd(Projected(p, wall.normal), Rat(Radius(id), 1)))

\* C40 (walls block motion): when the frozen position of an agent has its edge
\* on the near side of the wall line of a solid cardinal neighbour of its
\* tile, the position the collision step leaves in the transform has its edge
\* not beyond that line either, whichever contact the step selected.
InvC40 ==
    \A id \in done :
        (tile[id] # None /\ parent[id] \in layers) =>
            \A i \in 1..Len(Boundaries(tile[id])) :
                LET wall == Boundaries(tile[id])[i]
                IN OnNearSide(id, state[id].position, wall) =>
                        OnNearSide(id, transform[id], wall)

\* Witness of C40: a3 starts 8 short of the line of the solid tile east of
\* its tile with a velocity that would carry it 10 beyond the line in the
\* step, and the step leaves it with its edge on the line.
WitC40 ==
    /\ "a3" \in done
    /\ parent["a3"] = "l1"
    /\ solid = {Tile("l1", 3, 0)}
    /\ state["a3"].position = RVec(20, StartY)
    /\ state["a3"].velocity = RVec(20, 0)
    /\ Boundaries(tile["a3"]) = <<[position |-> 3, normal |-> "East"]>>
    /\ transform["a3"] = RVec(28, StartY)

=============================================================================
